---- MODULE Spec2Model ----
(***************************************************************************)
(* Model of dataform-bootstrap: the action-graph builder                   *)
(* (src/generators/actions.py), the query deduplicator                     *)
(* (src/generators/sql.py, src/utils/similarity.py), the location          *)
(* migration that drives them (src/models/orchestration.py), the command   *)
(* line and the project loop above it (src/cli/main.py,                    *)
(* src/cli/handlers.py) and DataformMigration.execute                      *)
(* (src/models/migrations.py).                                             *)
(*                                                                         *)
(* Python values are represented as follows.                               *)
(*   str            a sequence of one-character strings                    *)
(*   Optional[X]    <<>> for None, <<x>> for a value x                     *)
(*   list           a sequence                                             *)
(*   set            a set; its iteration order is an explicit argument     *)
(*   dict           a function whose DOMAIN is the set of keys present     *)
(***************************************************************************)
EXTENDS Integers, Sequences, FiniteSets, TLC

VARIABLES
    pc,              \* position of the method that is running
    tables,          \* metadata.tables collected so far
    jobs,            \* metadata.jobs collected so far
    actions_config,  \* Optional: value returned by generate_actions_yaml
    actions_yaml,    \* Optional: content of definitions/actions.yaml
    sql_files,       \* dict path -> content of the files under definitions/
    logs,            \* dict path -> list of decision records under logs/
    write_errors,    \* paths whose open or write raised inside generate_sql_files (caught, logged)
    truncated,       \* those of them that were opened before the write raised
    errors,          \* len(state.metrics.errors)
    result,          \* Optional: value returned by migrate_location
    fn_call,         \* Optional: a function of the library and the arguments it is called with
    fn_ret,          \* Optional: what that call returned or raised
    cli_config,      \* Optional: the CLIConfig built by run_cli
    project_index,   \* migrate_projects: index of the project migrated next
    results,         \* migrate_projects: dict project_id -> bool
    state,           \* Optional: manager.state.state of the current ProjectMigrationManager
    metrics_errors,  \* manager.state.metrics.errors
    location_index,  \* migrate: index of the location migrated next
    success,         \* migrate: its local variable
    attempts,        \* the calls the running method has made and what each produced
    status,          \* Optional: value returned by handler.run()
    exit_code,       \* Optional: exit status of the process
    context,         \* Optional: the MigrationContext of a DataformMigration
    output_dirs      \* dict (project, location) -> content of base_dir/project/location

\* The state of one location's migration and of a library call.
location_vars == <<tables, jobs, actions_config, actions_yaml, sql_files, logs, write_errors,
                   truncated, errors, result>>

\* The state of the command line, the orchestrator and DataformMigration.
orchestration_vars == <<cli_config, project_index, results, state, metrics_errors,
                        location_index, success,
                        attempts, status, exit_code, context, output_dirs>>

vars == <<pc, tables, jobs, actions_config, actions_yaml, sql_files, logs, write_errors, truncated,
          errors, result, fn_call, fn_ret, cli_config, project_index, results, state,
          metrics_errors, location_index, success, attempts, status, exit_code, context,
          output_dirs>>

-----------------------------------------------------------------------------
(* Python built-ins used by the code                                       *)

None == <<>>

Some(x) == <<x>>

\* Code points of the characters that occur in the model's strings.
Ord ==
    ("\n" :> 10) @@ (" " :> 32) @@ ("*" :> 42) @@ ("-" :> 45) @@ ("." :> 46) @@ ("/" :> 47) @@
    ("0" :> 48) @@ ("1" :> 49) @@ ("2" :> 50) @@ ("3" :> 51) @@ ("4" :> 52) @@ ("5" :> 53) @@
    ("6" :> 54) @@ ("7" :> 55) @@ ("8" :> 56) @@ ("9" :> 57) @@ ("A" :> 65) @@ ("B" :> 66) @@
    ("C" :> 67) @@ ("D" :> 68) @@ ("E" :> 69) @@ ("F" :> 70) @@ ("G" :> 71) @@ ("H" :> 72) @@
    ("I" :> 73) @@ ("J" :> 74) @@ ("K" :> 75) @@ ("L" :> 76) @@ ("M" :> 77) @@ ("N" :> 78) @@
    ("O" :> 79) @@ ("P" :> 80) @@ ("Q" :> 81) @@ ("R" :> 82) @@ ("S" :> 83) @@ ("T" :> 84) @@
    ("U" :> 85) @@ ("V" :> 86) @@ ("W" :> 87) @@ ("X" :> 88) @@ ("Y" :> 89) @@ ("Z" :> 90) @@
    ("_" :> 95) @@ ("a" :> 97) @@ ("b" :> 98) @@ ("c" :> 99) @@ ("d" :> 100) @@ ("e" :> 101) @@
    ("f" :> 102) @@ ("g" :> 103) @@ ("h" :> 104) @@ ("i" :> 105) @@ ("j" :> 106) @@ ("k" :> 107) @@
    ("l" :> 108) @@ ("m" :> 109) @@ ("n" :> 110) @@ ("o" :> 111) @@ ("p" :> 112) @@ ("q" :> 113) @@
    ("r" :> 114) @@ ("s" :> 115) @@ ("t" :> 116) @@ ("u" :> 117) @@ ("v" :> 118) @@ ("w" :> 119) @@
    ("x" :> 120) @@ ("y" :> 121) @@ ("z" :> 122)

\* str < str: lexicographic on code points, a proper prefix is smaller.
RECURSIVE StrLt(_, _)
StrLt(a, b) ==
    IF b = <<>> THEN FALSE
    ELSE IF a = <<>> THEN TRUE
    ELSE IF Ord[Head(a)] # Ord[Head(b)] THEN Ord[Head(a)] < Ord[Head(b)]
    ELSE StrLt(Tail(a), Tail(b))

\* list-of-str < list-of-str, and tuple-of-str < tuple-of-str.
RECURSIVE ListLt(_, _)
ListLt(a, b) ==
    IF b = <<>> THEN FALSE
    ELSE IF a = <<>> THEN TRUE
    ELSE IF Head(a) # Head(b) THEN StrLt(Head(a), Head(b))
    ELSE ListLt(Tail(a), Tail(b))

\* sorted(s, key=...) and list.sort(key=...): a stable sort; Lt compares keys.
Sorted(s, Lt(_, _)) ==
    LET n == Len(s)
        before(j, i) == Lt(s[j], s[i]) \/ (~Lt(s[i], s[j]) /\ j < i)
        rank(i) == Cardinality({j \in 1..n : before(j, i)})
    IN  [k \in 1..n |-> s[CHOOSE i \in 1..n : rank(i) = k - 1]]

\* The orders in which iterating a set may deliver its elements.
Orderings(S) ==
    {f \in [1..Cardinality(S) -> S] : \A i, j \in DOMAIN f : i # j => f[i] # f[j]}

\* sep.join(parts)
RECURSIVE Join(_, _)
Join(sep, parts) ==
    IF parts = <<>> THEN <<>>
    ELSE IF Len(parts) = 1 THEN Head(parts)
    ELSE Head(parts) \o sep \o Join(sep, Tail(parts))

\* s.split(c) for a one-character separator c.
RECURSIVE Split(_, _)
Split(s, c) ==
    IF \A i \in 1..Len(s) : s[i] # c THEN <<s>>
    ELSE LET k == CHOOSE i \in 1..Len(s) : s[i] = c /\ \A j \in 1..(i - 1) : s[j] # c
         IN  <<SubSeq(s, 1, k - 1)>> \o Split(SubSeq(s, k + 1, Len(s)), c)

\* [f(x) for x in s]
Map(s, F(_)) == [i \in 1..Len(s) |-> F(s[i])]

\* d1.update(d2) on dicts with string keys: the keys of d2 overwrite.
Update(d1, d2) == d2 @@ d1

-----------------------------------------------------------------------------
(* src/generators/actions.py                                               *)

\* Python truth value of an Optional[str], Optional[list] or Optional[dict].
Truthy(opt) == opt # None /\ opt[1] # <<>>

\* d.get(key) on a dict d: None when the key is absent.
Get(d, key) == IF key \in DOMAIN d THEN Some(d[key]) ELSE None

MsPerDay == 24 * 60 * 60 * 1000

\* int(c) for a decimal digit c
DigitValue(c) == CHOOSE d \in 0..9 : <<"0", "1", "2", "3", "4", "5", "6", "7", "8", "9">>[d + 1] = c

\* One step of the long division by 24 * 60 * 60 * 1000: <<quotient, remainder>>
\* of the digits read so far, from those before the digit of value d.
LongDivisionStep(front, d) ==
    <<10 * front[1] + (10 * front[2] + d) \div MsPerDay, (10 * front[2] + d) % MsPerDay>>

\* divmod(int(s[:n]), 24 * 60 * 60 * 1000) for a string of decimal digits
RECURSIVE DivModDays(_, _)
DivModDays(s, n) ==
    IF n = 0 THEN <<0, 0>> ELSE LongDivisionStep(DivModDays(s, n - 1), DigitValue(s[n]))

\* The exponent e of a positive integer: 2^e <= n < 2^(e+1).
RECURSIVE Exponent(_)
Exponent(n) == IF n < 2 THEN 0 ELSE 1 + Exponent(n \div 2)

\* int(q + r / MsPerDay) for 0 <= r < MsPerDay: the quotient is rounded to the
\* nearest double (53-bit significand) and then truncated.  The doubles from q
\* up to q + 1 are 2^(Exponent(q) - 52) apart, so the quotient rounds to q + 1
\* when (MsPerDay - r) * 2^(53 - Exponent(q)) < MsPerDay, which needs
\* q >= 2^27; no quotient is halfway between two doubles, since 2^23 does not
\* divide MsPerDay.
TruncTrueQuotient(qr) ==
    IF /\ qr[1] >= 2 ^ 27
       /\ 2 ^ (53 - Exponent(qr[1])) <= (MsPerDay - 1) \div (MsPerDay - qr[2])
      THEN qr[1] + 1
      ELSE qr[1]

\* int(int(s) / (24 * 60 * 60 * 1000))
TruncTrueDivDays(s) == TruncTrueQuotient(DivModDays(s, Len(s)))

\* str(n) for n >= 0
RECURSIVE ToDigits(_)
ToDigits(n) ==
    LET digit == CHOOSE c \in DOMAIN Ord : Ord[c] = Ord["0"] + (n % 10)
    IN  IF n < 10 THEN <<digit>> ELSE Append(ToDigits(n \div 10), digit)

MaxDays == 3

\* Expirations of 2^27 - 1 days and of 2^27 days, each one millisecond short of
\* the next whole day, and of 2^27 days two milliseconds short of it.
LongExpirations ==
    {<<"1", "1", "5", "9", "6", "4", "1", "1", "6", "9", "9", "1", "9", "9", "9", "9", "9">>,
     <<"1", "1", "5", "9", "6", "4", "1", "1", "7", "8", "5", "5", "9", "9", "9", "9", "9">>,
     <<"1", "1", "5", "9", "6", "4", "1", "1", "7", "8", "5", "5", "9", "9", "9", "9", "8">>}

\* The expirationMs texts of the model: a whole number of days up to MaxDays,
\* one millisecond more and one less, and the long ones.
ExpirationTexts ==
    {ToDigits(days * MsPerDay + ms) : days \in 0..MaxDays, ms \in {0, 1, MsPerDay - 1}}
    \cup LongExpirations

DependencyTarget(project, dataset, name) ==
    [project |-> project, dataset |-> dataset, name |-> name]

DependencyTarget_to_dict(dep) ==
    [project |-> dep.project, dataset |-> dep.dataset, name |-> dep.name]

\* key=lambda x: (x.project, x.dataset, x.name)
DependencyKeyLt(x, y) ==
    ListLt(<<x.project, x.dataset, x.name>>, <<y.project, y.dataset, y.name>>)

\* ColumnConfig.to_dict with the tag lists as given.
ColumnConfig_to_dict_unsorted_tags(col) ==
    LET c1 == [path |-> col.path]
        c2 == IF Truthy(col.description)
                THEN Update(c1, [description |-> col.description[1]]) ELSE c1
        c3 == IF col.tags # <<>> THEN Update(c2, [tags |-> col.tags]) ELSE c2
        c4 == IF col.bigquery_policy_tags # <<>>
                THEN Update(c3, [bigqueryPolicyTags |-> col.bigquery_policy_tags])
                ELSE c3
    IN  c4

ColumnConfig_to_dict(col) ==
    LET c1 == [path |-> col.path]
        c2 == IF Truthy(col.description)
                THEN Update(c1, [description |-> col.description[1]]) ELSE c1
        c3 == IF col.tags # <<>>
                THEN Update(c2, [tags |-> Sorted(col.tags, StrLt)]) ELSE c2
        c4 == IF col.bigquery_policy_tags # <<>>
                THEN Update(c3, [bigqueryPolicyTags |-> Sorted(col.bigquery_policy_tags, StrLt)])
                ELSE c3
    IN  c4

\* key=lambda x: x.path
ColumnKeyLt(x, y) == ListLt(x.path, y.path)

\* ActionDefinition.to_dict raises ValueError for a non-declaration without filename.
ActionDefinition_to_dict_raises(self) ==
    self.type # "declaration" /\ ~Truthy(self.filename)

\* ActionDefinition.to_dict writing the filename key for every type of action.
ActionDefinition_to_dict_filename_always(self) ==
    LET d1 == [name |-> self.name, dataset |-> self.schema, project |-> self.project]
        d2 == Update(d1, [filename |-> self.filename])
        d3 == IF Truthy(self.description)
                THEN Update(d2, [description |-> self.description[1]]) ELSE d2
        d4 == IF self.columns # <<>>
                THEN Update(d3, [columns |->
                         Map(Sorted(self.columns, ColumnKeyLt), ColumnConfig_to_dict)])
                ELSE d3
        d5 == IF self.dependency_targets # <<>>
                THEN Update(d4, [dependencyTargets |->
                         Map(Sorted(self.dependency_targets, DependencyKeyLt),
                             DependencyTarget_to_dict)])
                ELSE d4
        d6 == IF DOMAIN self.config # {} THEN Update(d5, self.config) ELSE d5
    IN  [type |-> self.type, value |-> d6]

\* ActionDefinition.to_dict rendering the dependency targets in list order.
ActionDefinition_to_dict_unsorted_targets(self) ==
    LET d1 == [name |-> self.name, dataset |-> self.schema, project |-> self.project]
        d2 == IF self.type # "declaration"
                THEN Update(d1, [filename |-> self.filename[1]]) ELSE d1
        d3 == IF Truthy(self.description)
                THEN Update(d2, [description |-> self.description[1]]) ELSE d2
        d4 == IF self.columns # <<>>
                THEN Update(d3, [columns |->
                         Map(Sorted(self.columns, ColumnKeyLt), ColumnConfig_to_dict)])
                ELSE d3
        d5 == IF self.dependency_targets # <<>>
                THEN Update(d4, [dependencyTargets |->
                         Map(self.dependency_targets, DependencyTarget_to_dict)])
                ELSE d4
        d6 == IF DOMAIN self.config # {} THEN Update(d5, self.config) ELSE d5
    IN  [type |-> self.type, value |-> d6]

\* ActionDefinition.to_dict: the one-key dict {type: value} as [type, value].
ActionDefinition_to_dict(self) ==
    LET d1 == [name |-> self.name, dataset |-> self.schema, project |-> self.project]
        d2 == IF self.type # "declaration"
                THEN Update(d1, [filename |-> self.filename[1]]) ELSE d1
        d3 == IF Truthy(self.description)
                THEN Update(d2, [description |-> self.description[1]]) ELSE d2
        d4 == IF self.columns # <<>>
                THEN Update(d3, [columns |->
                         Map(Sorted(self.columns, ColumnKeyLt), ColumnConfig_to_dict)])
                ELSE d3
        d5 == IF self.dependency_targets # <<>>
                THEN Update(d4, [dependencyTargets |->
                         Map(Sorted(self.dependency_targets, DependencyKeyLt),
                             DependencyTarget_to_dict)])
                ELSE d4
        d6 == IF DOMAIN self.config # {} THEN Update(d5, self.config) ELSE d5
    IN  [type |-> self.type, value |-> d6]

_parse_column_path(column_name) == Split(column_name, ".")

_convert_column_metadata(column) ==
    [path |-> _parse_column_path(column.name),
     description |-> column.description,
     tags |-> column.tags,
     bigquery_policy_tags |-> column.policy_tags]

_generate_config_from_table(table) ==
    LET part == table.partitioning
        c1 == IF part # None /\ DOMAIN part[1] # {}
                THEN LET p1 == [partitionBy |-> Get(part[1], "field")]
                     IN  IF Truthy(Get(part[1], "expirationMs"))
                           THEN Update(p1, [partitionExpirationDays |->
                                    TruncTrueDivDays(part[1]["expirationMs"])])
                           ELSE p1
                ELSE <<>>
        c2 == IF Truthy(table.clustering)
                THEN Update(c1, [clusterBy |-> table.clustering[1]]) ELSE c1
        c3 == IF table.labels # None /\ DOMAIN table.labels[1] # {}
                THEN Update(c2, [labels |-> table.labels[1]]) ELSE c2
    IN  c3

\* f"{project}.{dataset}.{table}"
RefStr(project, dataset, table) == Join(<<".">>, <<project, dataset, table>>)

\* _collect_dependencies without the comparison against table_ref.
_collect_dependencies_unfiltered(table, table_jobs) ==
    LET refs == UNION {{table_jobs[i].referenced_tables[k] :
                           k \in 1..Len(table_jobs[i].referenced_tables)} :
                       i \in 1..Len(table_jobs)}
    IN  {DependencyTarget(ref.projectId, ref.datasetId, ref.tableId) : ref \in refs}

\* _collect_dependencies reading the references of the first job only.
_collect_dependencies_first_job(table, table_jobs) ==
    LET table_ref == RefStr(table.project_id, table.dataset_id, table.table_id)
        refs == IF table_jobs = <<>> THEN {}
                ELSE {table_jobs[1].referenced_tables[k] :
                         k \in 1..Len(table_jobs[1].referenced_tables)}
    IN  {DependencyTarget(ref.projectId, ref.datasetId, ref.tableId) :
            ref \in {r \in refs : RefStr(r.projectId, r.datasetId, r.tableId) # table_ref}}

_collect_dependencies(table, table_jobs) ==
    LET table_ref == RefStr(table.project_id, table.dataset_id, table.table_id)
        refs == UNION {{table_jobs[i].referenced_tables[k] :
                           k \in 1..Len(table_jobs[i].referenced_tables)} :
                       i \in 1..Len(table_jobs)}
    IN  {DependencyTarget(ref.projectId, ref.datasetId, ref.tableId) :
            ref \in {r \in refs : RefStr(r.projectId, r.datasetId, r.tableId) # table_ref}}

_create_declaration(dependency) ==
    [type |-> "declaration",
     name |-> dependency.name,
     schema |-> dependency.dataset,
     project |-> dependency.project,
     filename |-> None,
     description |-> None,
     columns |-> <<>>,
     dependency_targets |-> <<>>,
     config |-> <<>>,
     disabled |-> None]

\* f"{dataset}/{table_id}.sql", relative to definitions_dir
SqlPath(dataset, table_id) == dataset \o <<"/">> \o table_id \o <<".", "s", "q", "l">>

AutoGenerated == <<"A", "u", "t", "o", "-", "g", "e", "n", "e", "r", "a", "t", "e", "d",
                   " ", "f", "r", "o", "m", " ">>

\* _ensure_sql_file: the files under definitions/ after the call.
_ensure_sql_file(files, dataset, table_id) ==
    IF SqlPath(dataset, table_id) \in DOMAIN files THEN files
    ELSE Update(files, SqlPath(dataset, table_id) :> <<>>)

\* generate_action with the kind 'table' for every table.
generate_action_always_table(table, table_jobs, dep_list) ==
    [type |-> "table",
     name |-> table.table_id,
     schema |-> table.dataset_id,
     project |-> table.project_id,
     filename |-> Some(SqlPath(table.dataset_id, table.table_id)),
     description |-> Some(AutoGenerated \o
                          RefStr(table.project_id, table.dataset_id, table.table_id)),
     columns |-> Map(table.columns, _convert_column_metadata),
     dependency_targets |-> dep_list,
     config |-> _generate_config_from_table(table),
     disabled |-> Some(FALSE)]

\* generate_action; dep_list is list(dependencies), in the set's iteration order.
generate_action(table, table_jobs, dep_list) ==
    [type |-> IF table.table_type = "VIEW" THEN "view" ELSE "table",
     name |-> table.table_id,
     schema |-> table.dataset_id,
     project |-> table.project_id,
     filename |-> Some(SqlPath(table.dataset_id, table.table_id)),
     description |-> Some(AutoGenerated \o
                          RefStr(table.project_id, table.dataset_id, table.table_id)),
     columns |-> Map(table.columns, _convert_column_metadata),
     dependency_targets |-> dep_list,
     config |-> _generate_config_from_table(table),
     disabled |-> Some(FALSE)]

TableKey(table) == <<table.project_id, table.dataset_id, table.table_id>>

DestKey(job) ==
    <<job.destination_table[1].projectId, job.destination_table[1].datasetId,
      job.destination_table[1].tableId>>

\* jobs_by_table.get(key, []): the jobs with that destination, in input order.
JobsByTable(job_list, key) ==
    SelectSeq(job_list, LAMBDA job : job.destination_table # None /\ DestKey(job) = key)

\* key=lambda x: (x.type != 'declaration', x.project, x.schema, x.name); False < True
ActionKeyLt(x, y) ==
    LET bx == IF x.type # "declaration" THEN 1 ELSE 0
        by == IF y.type # "declaration" THEN 1 ELSE 0
    IN  IF bx # by THEN bx < by
        ELSE ListLt(<<x.project, x.schema, x.name>>, <<y.project, y.schema, y.name>>)

\* The dependency set of each table, by position in the table list.
TableDependencies(table_list, job_list) ==
    [i \in 1..Len(table_list) |->
        _collect_dependencies(table_list[i], JobsByTable(job_list, TableKey(table_list[i])))]

\* all_dependencies after the first pass
AllDependencies(table_list, job_list) ==
    UNION {TableDependencies(table_list, job_list)[i] : i \in 1..Len(table_list)}

\* generate_actions_yaml declaring the dependencies found in known_tables
\* instead of those missing from it.
SortedActions_declare_known(table_list, job_list, dep_lists, decl_order) ==
    LET known_tables == {TableKey(table_list[i]) : i \in 1..Len(table_list)}
        main == [i \in 1..Len(table_list) |->
                    generate_action(table_list[i],
                                    JobsByTable(job_list, TableKey(table_list[i])),
                                    dep_lists[i])]
        external == SelectSeq(decl_order,
                        LAMBDA dep : <<dep.project, dep.dataset, dep.name>> \in known_tables)
        actions == main \o Map(external, _create_declaration)
    IN  Sorted(actions, ActionKeyLt)

RECURSIVE Concat(_)
Concat(lists) == IF lists = <<>> THEN <<>> ELSE Head(lists) \o Concat(Tail(lists))

\* generate_actions_yaml keeping all_dependencies as a list extended with every
\* action's dependency targets instead of a set.
SortedActions_list_extend(table_list, job_list, dep_lists, decl_order) ==
    LET known_tables == {TableKey(table_list[i]) : i \in 1..Len(table_list)}
        main == [i \in 1..Len(table_list) |->
                    generate_action(table_list[i],
                                    JobsByTable(job_list, TableKey(table_list[i])),
                                    dep_lists[i])]
        external == SelectSeq(Concat(dep_lists),
                        LAMBDA dep : <<dep.project, dep.dataset, dep.name>> \notin known_tables)
        actions == main \o Map(external, _create_declaration)
    IN  Sorted(actions, ActionKeyLt)

\* The actions list of generate_actions_yaml before rendering.  dep_lists[i] is
\* list(dependencies) for table i and decl_order the iteration order of
\* all_dependencies.
SortedActions(table_list, job_list, dep_lists, decl_order) ==
    LET known_tables == {TableKey(table_list[i]) : i \in 1..Len(table_list)}
        main == [i \in 1..Len(table_list) |->
                    generate_action(table_list[i],
                                    JobsByTable(job_list, TableKey(table_list[i])),
                                    dep_lists[i])]
        external == SelectSeq(decl_order,
                        LAMBDA dep : <<dep.project, dep.dataset, dep.name>> \notin known_tables)
        actions == main \o Map(external, _create_declaration)
    IN  Sorted(actions, ActionKeyLt)

generate_actions_yaml_raises(table_list, job_list, dep_lists, decl_order) ==
    LET actions == SortedActions(table_list, job_list, dep_lists, decl_order)
    IN  \E i \in 1..Len(actions) : ActionDefinition_to_dict_raises(actions[i])

generate_actions_yaml(table_list, job_list, dep_lists, decl_order) ==
    [actions |-> Map(SortedActions(table_list, job_list, dep_lists, decl_order),
                     ActionDefinition_to_dict)]

\* The lists list(dependencies) can deliver, one per table: every dependency
\* set is iterated in an order of its own (the order depends on the hashes of
\* the process and on the order in which the set was filled, so two sets with
\* the same elements may be delivered in different orders).
DepLists(table_list, job_list) ==
    LET deps == TableDependencies(table_list, job_list)
        orders == UNION {Orderings(deps[i]) : i \in 1..Len(table_list)}
    IN  {lists \in [1..Len(table_list) -> orders] :
            \A i \in 1..Len(table_list) : lists[i] \in Orderings(deps[i])}

-----------------------------------------------------------------------------
(* src/utils/similarity.py                                                 *)

min_length == 10

\* c.isspace(), on which query.split() separates: the space, tab, line feed,
\* vertical tab, form feed, carriage return, the separators U+001C to U+001F,
\* U+0085, U+00A0 and U+1680 (the whitespace characters a string of this module
\* can hold; the vertical tab and those after the carriage return are written
\* as the characters themselves).
IsSpace(c) ==
    c \in {" ", "\t", "\n", "\r", "\f", "", "", "", "", "", "", " ", " "}

\* c.lower() for the characters of Ord
Lower(c) ==
    IF Ord[c] >= 65 /\ Ord[c] <= 90
      THEN CHOOSE l \in DOMAIN Ord : Ord[l] = Ord[c] + 32
      ELSE c

\* s starts with the two characters c1 c2
StartsWith2(s, c1, c2) == Len(s) >= 2 /\ s[1] = c1 /\ s[2] = c2

\* re.sub(r'--.*$', '', query, flags=re.MULTILINE)
RECURSIVE StripLineComments(_)
StripLineComments(s) ==
    IF s = <<>> THEN <<>>
    ELSE IF StartsWith2(s, "-", "-")
      THEN IF \E i \in 1..Len(s) : s[i] = "\n"
             THEN LET k == CHOOSE i \in 1..Len(s) :
                               s[i] = "\n" /\ \A j \in 1..(i - 1) : s[j] # "\n"
                  IN  StripLineComments(SubSeq(s, k, Len(s)))
             ELSE <<>>
      ELSE <<Head(s)>> \o StripLineComments(Tail(s))

\* re.sub(r'/\*.*?\*/', '', query, flags=re.DOTALL)
RECURSIVE StripBlockComments(_)
StripBlockComments(s) ==
    IF s = <<>> THEN <<>>
    ELSE IF StartsWith2(s, "/", "*") /\
            \E i \in 3..(Len(s) - 1) : s[i] = "*" /\ s[i + 1] = "/"
      THEN LET k == CHOOSE i \in 3..(Len(s) - 1) :
                        /\ s[i] = "*" /\ s[i + 1] = "/"
                        /\ \A j \in 3..(i - 1) : ~(s[j] = "*" /\ s[j + 1] = "/")
           IN  StripBlockComments(SubSeq(s, k + 2, Len(s)))
      ELSE <<Head(s)>> \o StripBlockComments(Tail(s))

\* query.split(): the maximal runs of non-whitespace characters
RECURSIVE Words(_)
Words(s) ==
    IF s = <<>> THEN <<>>
    ELSE IF IsSpace(Head(s)) THEN Words(Tail(s))
    ELSE LET n == IF \E i \in 1..Len(s) : IsSpace(s[i])
                    THEN (CHOOSE i \in 1..Len(s) :
                              IsSpace(s[i]) /\ \A j \in 1..(i - 1) : ~IsSpace(s[j])) - 1
                    ELSE Len(s)
         IN  <<SubSeq(s, 1, n)>> \o Words(SubSeq(s, n + 1, Len(s)))

\* normalise_query with the default QuerySimilarityConfig
normalise_query(query) ==
    LET q1 == StripBlockComments(StripLineComments(query))
        q2 == Join(<<" ">>, Words(q1))
    IN  [i \in 1..Len(q2) |-> Lower(q2[i])]

\* The elements autojunk drops from the index b2j of SequenceMatcher: none
\* when b has fewer than 200 elements, otherwise those that occur more than
\* len(b) // 100 + 1 times in b.
Popular(b) ==
    IF Len(b) < 200 THEN {}
    ELSE {c \in {b[j] : j \in 1..Len(b)} :
             Cardinality({j \in 1..Len(b) : b[j] = c}) > (Len(b) \div 100) + 1}

\* Length of the common run of a[i:ahi] and b[j:bhi] (0-based, as in difflib)
\* made of elements outside popular.
RECURSIVE RunLen(_, _, _, _, _, _, _)
RunLen(a, b, i, j, ahi, bhi, popular) ==
    IF i < ahi /\ j < bhi /\ a[i + 1] = b[j + 1] /\ b[j + 1] \notin popular
      THEN 1 + RunLen(a, b, i + 1, j + 1, ahi, bhi, popular)
      ELSE 0

\* Number of equal elements just before a[i] and b[j], down to alo and blo.
RECURSIVE RunLenBack(_, _, _, _, _, _)
RunLenBack(a, b, i, j, alo, blo) ==
    IF i > alo /\ j > blo /\ a[i] = b[j]
      THEN 1 + RunLenBack(a, b, i - 1, j - 1, alo, blo)
      ELSE 0

\* The runs find_longest_match finds through the index b2j, which leaves out
\* the popular elements of b: <<i, j, k>> for a[i:i+k] = b[j:j+k].
IndexedRuns(a, b, alo, ahi, blo, bhi, popular) ==
    {<<i, j, RunLen(a, b, i, j, ahi, bhi, popular)>> :
        i \in alo..(ahi - 1), j \in blo..(bhi - 1)}

\* The longest of the runs.
LongestRuns(runs) == {c \in runs : c[3] > 0 /\ \A d \in runs : d[3] <= c[3]}

\* besti, bestj, bestsize after the loop over the index: of the longest runs
\* the one of least i, then least j; (alo, blo, 0) when there is none.
BestRun(best, alo, blo) ==
    IF best = {} THEN <<alo, blo, 0>>
    ELSE CHOOSE c \in best :
            \A d \in best : c[1] < d[1] \/ (c[1] = d[1] /\ c[2] <= d[2])

\* The run moved back by the equal elements before it and grown by those after.
ExtendedRun(found, back, forward) ==
    <<found[1] - back, found[2] - back, found[3] + back + forward>>

\* The loops of find_longest_match that extend the run at both ends by the
\* equal elements next to it, popular ones included.
ExtendRun(a, b, alo, ahi, blo, bhi, found) ==
    ExtendedRun(found,
                RunLenBack(a, b, found[1], found[2], alo, blo),
                RunLen(a, b, found[1] + found[3], found[2] + found[3], ahi, bhi, {}))

\* SequenceMatcher.find_longest_match with isjunk None and autojunk on.
find_longest_match(a, b, alo, ahi, blo, bhi) ==
    ExtendRun(a, b, alo, ahi, blo, bhi,
              BestRun(LongestRuns(IndexedRuns(a, b, alo, ahi, blo, bhi, Popular(b))),
                      alo, blo))

\* Sum of the sizes of SequenceMatcher.get_matching_blocks on a[alo:ahi], b[blo:bhi].
RECURSIVE MatchingSize(_, _, _, _, _, _)

\* The size of the block m, and of the blocks before and after it.
BlockSizes(a, b, alo, ahi, blo, bhi, m) ==
    IF m[3] = 0 THEN 0
    ELSE m[3] + (IF alo < m[1] /\ blo < m[2]
                   THEN MatchingSize(a, b, alo, m[1], blo, m[2]) ELSE 0)
              + (IF m[1] + m[3] < ahi /\ m[2] + m[3] < bhi
                   THEN MatchingSize(a, b, m[1] + m[3], ahi, m[2] + m[3], bhi) ELSE 0)

MatchingSize(a, b, alo, ahi, blo, bhi) ==
    BlockSizes(a, b, alo, ahi, blo, bhi, find_longest_match(a, b, alo, ahi, blo, bhi))

\* SequenceMatcher(None, a, b).ratio() as the fraction num/den.
SequenceMatcher_ratio(a, b) ==
    IF Len(a) + Len(b) = 0 THEN [num |-> 1, den |-> 1]
    ELSE [num |-> 2 * MatchingSize(a, b, 0, Len(a), 0, Len(b)), den |-> Len(a) + Len(b)]

\* calculate_similarity without the minimum length check.
calculate_similarity_unguarded(query1, query2) ==
    SequenceMatcher_ratio(normalise_query(query1), normalise_query(query2))

\* calculate_similarity with the default config; the float as a fraction.
calculate_similarity(query1, query2) ==
    LET norm_query1 == normalise_query(query1)
        norm_query2 == normalise_query(query2)
    IN  IF Len(norm_query1) < min_length \/ Len(norm_query2) < min_length
          THEN [num |-> 0, den |-> 1]
          ELSE SequenceMatcher_ratio(norm_query1, norm_query2)

\* x >= y on fractions with positive denominators
FracGeq(x, y) == x.num * y.den >= y.num * x.den

-----------------------------------------------------------------------------
(* src/generators/sql.py                                                   *)

\* SQLGenerator.similarity_threshold: the default 0.9, as a fraction
similarity_threshold == [num |-> 9, den |-> 10]

QueryA == <<"S", "E", "L", "E", "C", "T", " ", "a", " ", "F", "R", "O", "M", " ", "t">>

\* QueryA up to case, whitespace and a comment
QueryA2 ==
    <<"s", "e", "l", "e", "c", "t", " ", "a", " ", " ", "f", "r", "o", "m", " ", "t", " ",
      "-", "-", " ", "x">>

QueryB == <<"S", "E", "L", "E", "C", "T", " ", "b", " ", "F", "R", "O", "M", " ", "u">>

\* A query whose normalised form is shorter than min_length
QueryShort == <<"S", "E", "L", "E", "C", "T", " ", "1">>

\* The texts a job's query may have.
QueryTexts == {QueryA, QueryA2, QueryB, QueryShort}

\* calculate_similarity tabulated over the query texts of the model.
SimilarityTable ==
    [q1 \in QueryTexts, q2 \in QueryTexts |-> calculate_similarity(q1, q2)]

\* The inner loop of deduplicate_queries scoring the job against the most
\* recently accepted entry only.
SimilarQueries_last_only(job, unique_queries) ==
    IF unique_queries = <<>> THEN <<>>
    ELSE LET existing == unique_queries[Len(unique_queries)]
             e == [job_id |-> existing.job_id,
                   similarity |-> SimilarityTable[job.query[1], existing.query]]
         IN  IF FracGeq(e.similarity, similarity_threshold) THEN <<e>> ELSE <<>>

\* The inner loop of deduplicate_queries listing every accepted entry with its
\* score, whatever the score.
SimilarQueries_all_scores(job, unique_queries) ==
    [i \in 1..Len(unique_queries) |->
        [job_id |-> unique_queries[i].job_id,
         similarity |-> SimilarityTable[job.query[1], unique_queries[i].query]]]

\* The similar_queries list built by the inner loop of deduplicate_queries.
SimilarQueries(job, unique_queries) ==
    LET scored == [i \in 1..Len(unique_queries) |->
                      [job_id |-> unique_queries[i].job_id,
                       similarity |-> SimilarityTable[job.query[1],
                                                       unique_queries[i].query]]]
    IN  SelectSeq(scored, LAMBDA e : FracGeq(e.similarity, similarity_threshold))

\* The loop of deduplicate_queries accepting every job with query text, the
\* jobs it logs as duplicates included.
RECURSIVE DedupLoop_keep_all(_, _, _)
DedupLoop_keep_all(rest, unique_queries, calls) ==
    IF rest = <<>> THEN [unique_queries |-> unique_queries, calls |-> calls]
    ELSE LET job == Head(rest)
         IN  IF ~Truthy(job.query) THEN DedupLoop_keep_all(Tail(rest), unique_queries, calls)
             ELSE LET similar_queries == SimilarQueries(job, unique_queries)
                  IN  DedupLoop_keep_all(
                          Tail(rest),
                          Append(unique_queries,
                                 [query |-> job.query[1],
                                  job_id |-> job.job_id,
                                  created_time |-> job.created_time]),
                          IF similar_queries # <<>>
                            THEN Append(calls, [job |-> job,
                                                similar_queries |-> similar_queries])
                            ELSE calls)

\* The loop of deduplicate_queries over the jobs not yet visited: the final
\* unique_queries and the calls made to _log_deduplication_decision, in order.
RECURSIVE DedupLoop(_, _, _)
DedupLoop(rest, unique_queries, calls) ==
    IF rest = <<>> THEN [unique_queries |-> unique_queries, calls |-> calls]
    ELSE LET job == Head(rest)
         IN  IF ~Truthy(job.query) THEN DedupLoop(Tail(rest), unique_queries, calls)
             ELSE LET similar_queries == SimilarQueries(job, unique_queries)
                      is_unique == similar_queries = <<>>
                  IN  DedupLoop(
                          Tail(rest),
                          IF is_unique
                            THEN Append(unique_queries,
                                        [query |-> job.query[1],
                                         job_id |-> job.job_id,
                                         created_time |-> job.created_time])
                            ELSE unique_queries,
                          IF similar_queries # <<>>
                            THEN Append(calls, [job |-> job,
                                                similar_queries |-> similar_queries])
                            ELSE calls)

deduplicate_queries(job_list) == DedupLoop(job_list, <<>>, <<>>)

\* f"{datasetId}_{tableId}_choices.ndjson", relative to logs_dir
LogPath(dataset, table_id) ==
    dataset \o <<"_">> \o table_id \o
    <<"_", "c", "h", "o", "i", "c", "e", "s", ".", "n", "d", "j", "s", "o", "n">>

\* What generate_sql_files has done so far: the files under definitions/ and
\* logs/, the paths named in the errors it logged and, of those, the paths that
\* were opened before the write raised.
Outcome(files, log_files, failed, opened) ==
    [sql_files |-> files, logs |-> log_files, write_errors |-> failed, truncated |-> opened]

\* The faults of a run.  Of an SQL file (by path): the mkdir or the open raises,
\* or the write raises once `written` characters are in the file (it does not
\* raise when the text is no longer than that).  Of a call of
\* _log_deduplication_decision (by job id): "open", the open raises; "empty",
\* the write raises with nothing written; "part", the write raises with the
\* line begun.  A path or job id outside the domain has no fault.
NoFaults == <<>>

OpenRaises == [raises |-> "open", written |-> 0]

WriteRaises(written) == [raises |-> "write", written |-> written]

LogFaults == {"open", "empty", "part"}

\* What a write that raised with the line of the decision begun leaves in the
\* log: a proper, non-empty prefix of the line.
PartialLine(decision) == [partial |-> decision]

\* The lines written to the log at log_path, with those it held.
LogLines(log_files, log_path, lines) ==
    IF log_path \in DOMAIN log_files
      THEN [log_files EXCEPT ![log_path] = @ \o lines]
      ELSE Update(log_files, log_path :> lines)

\* The error logged for path; opened tells that the file was opened before.
LoggedError(out, path, opened) ==
    [out EXCEPT !.write_errors = @ \cup {path},
                !.truncated = IF opened THEN @ \cup {path} ELSE @]

\* _log_deduplication_decision opening the log with mode 'w'.
_log_deduplication_decision_overwrite(out, call, log_faults) ==
    IF call.job.destination_table = None THEN out
    ELSE LET log_path == LogPath(call.job.destination_table[1].datasetId,
                                 call.job.destination_table[1].tableId)
             decision == [job_id |-> call.job.job_id,
                          created_time |-> call.job.created_time,
                          similar_queries |-> call.similar_queries,
                          reason |-> similarity_threshold]
         IN  IF call.job.job_id \notin DOMAIN log_faults
               THEN [out EXCEPT !.logs = Update(@, log_path :> <<decision>>)]
             ELSE IF log_faults[call.job.job_id] = "open"
               THEN LoggedError(out, log_path, FALSE)
             ELSE LoggedError(
                      [out EXCEPT !.logs =
                          Update(@, log_path :> IF log_faults[call.job.job_id] = "part"
                                                  THEN <<PartialLine(decision)>> ELSE <<>>)],
                      log_path, TRUE)

\* _log_deduplication_decision: the outcome after the call.  The open with mode
\* 'a' creates the log when it is not there; the error of the open or of the
\* write is caught and logged.
_log_deduplication_decision(out, call, log_faults) ==
    IF call.job.destination_table = None THEN out
    ELSE LET log_path == LogPath(call.job.destination_table[1].datasetId,
                                 call.job.destination_table[1].tableId)
             decision == [job_id |-> call.job.job_id,
                          created_time |-> call.job.created_time,
                          similar_queries |-> call.similar_queries,
                          reason |-> similarity_threshold]
         IN  IF call.job.job_id \notin DOMAIN log_faults
               THEN [out EXCEPT !.logs = LogLines(@, log_path, <<decision>>)]
             ELSE IF log_faults[call.job.job_id] = "open"
               THEN LoggedError(out, log_path, FALSE)
             ELSE LoggedError(
                      [out EXCEPT !.logs =
                          LogLines(@, log_path, IF log_faults[call.job.job_id] = "part"
                                                  THEN <<PartialLine(decision)>> ELSE <<>>)],
                      log_path, TRUE)

\* The calls deduplicate_queries makes to _log_deduplication_decision, in order.
RECURSIVE LogAll(_, _, _)
LogAll(out, calls, log_faults) ==
    IF calls = <<>> THEN out
    ELSE LogAll(_log_deduplication_decision(out, Head(calls), log_faults),
                Tail(calls), log_faults)

\* max(unique_queries, key=lambda x: x['created_time']): the first maximal entry
LatestQuery(unique_queries) ==
    unique_queries[CHOOSE i \in 1..Len(unique_queries) :
        /\ \A j \in 1..Len(unique_queries) :
              unique_queries[j].created_time <= unique_queries[i].created_time
        /\ \A j \in 1..(i - 1) :
              unique_queries[j].created_time < unique_queries[i].created_time]

\* key = (datasetId, tableId) of a job with a destination table
SqlKey(job) == <<job.destination_table[1].datasetId, job.destination_table[1].tableId>>

\* The keys of jobs_by_table in generate_sql_files, in insertion order.
RECURSIVE SqlKeys(_, _)
SqlKeys(job_list, seen) ==
    IF job_list = <<>> THEN seen
    ELSE IF Head(job_list).destination_table = None
      THEN SqlKeys(Tail(job_list), seen)
    ELSE IF \E i \in 1..Len(seen) : seen[i] = SqlKey(Head(job_list))
      THEN SqlKeys(Tail(job_list), seen)
    ELSE SqlKeys(Tail(job_list), Append(seen, SqlKey(Head(job_list))))

\* jobs_by_table[key] in generate_sql_files
SqlJobsOf(job_list, key) ==
    SelectSeq(job_list, LAMBDA job : job.destination_table # None /\ SqlKey(job) = key)

\* with open(sql_path, 'w') as f: f.write(query) inside the try of the loop: the
\* open empties the file, and a write that raises leaves the characters
\* written before it.
WriteSqlFile(out, sql_path, query, sql_faults) ==
    IF sql_path \notin DOMAIN sql_faults \/ (sql_faults[sql_path].raises = "write"
                                             /\ Len(query) <= sql_faults[sql_path].written)
      THEN [out EXCEPT !.sql_files = Update(@, sql_path :> query)]
    ELSE IF sql_faults[sql_path].raises = "open"
      THEN LoggedError(out, sql_path, FALSE)
    ELSE LoggedError(
             [out EXCEPT !.sql_files =
                 Update(@, sql_path :> SubSeq(query, 1, sql_faults[sql_path].written))],
             sql_path, TRUE)

\* The loop of generate_sql_files with the try around the whole loop: the first
\* failed write ends it.
RECURSIVE SqlLoop_stop_at_failure(_, _, _, _, _)
SqlLoop_stop_at_failure(keys, job_list, out, sql_faults, log_faults) ==
    IF keys = <<>> THEN out
    ELSE LET key == Head(keys)
             dedup == deduplicate_queries(SqlJobsOf(job_list, key))
             logged == LogAll(out, dedup.calls, log_faults)
             sql_path == SqlPath(key[1], key[2])
         IN  IF dedup.unique_queries = <<>>
               THEN SqlLoop_stop_at_failure(Tail(keys), job_list, logged,
                                            sql_faults, log_faults)
             ELSE IF sql_path \in WriteSqlFile(logged, sql_path,
                                               LatestQuery(dedup.unique_queries).query,
                                               sql_faults).write_errors
               THEN WriteSqlFile(logged, sql_path,
                                 LatestQuery(dedup.unique_queries).query, sql_faults)
             ELSE SqlLoop_stop_at_failure(
                      Tail(keys), job_list,
                      WriteSqlFile(logged, sql_path,
                                   LatestQuery(dedup.unique_queries).query, sql_faults),
                      sql_faults, log_faults)

\* The loop of generate_sql_files with the error of a log write not caught in
\* _log_deduplication_decision: it leaves deduplicate_queries and the loop.
RECURSIVE SqlLoop_log_failure_raises(_, _, _, _, _)
SqlLoop_log_failure_raises(keys, job_list, out, sql_faults, log_faults) ==
    IF keys = <<>> THEN out
    ELSE LET key == Head(keys)
             dedup == deduplicate_queries(SqlJobsOf(job_list, key))
             logged == LogAll(out, dedup.calls, log_faults)
             sql_path == SqlPath(key[1], key[2])
         IN  IF \E i \in 1..Len(dedup.calls) : dedup.calls[i].job.job_id \in DOMAIN log_faults
               THEN logged
             ELSE SqlLoop_log_failure_raises(
                      Tail(keys), job_list,
                      IF dedup.unique_queries = <<>> THEN logged
                      ELSE WriteSqlFile(logged, sql_path,
                                        LatestQuery(dedup.unique_queries).query, sql_faults),
                      sql_faults, log_faults)

\* The loop of generate_sql_files over the remaining keys: the decisions of the
\* key are logged while its jobs are deduplicated, then its SQL file is written
\* when a query is left.
RECURSIVE SqlLoop(_, _, _, _, _)
SqlLoop(keys, job_list, out, sql_faults, log_faults) ==
    IF keys = <<>> THEN out
    ELSE LET key == Head(keys)
             dedup == deduplicate_queries(SqlJobsOf(job_list, key))
             logged == LogAll(out, dedup.calls, log_faults)
             sql_path == SqlPath(key[1], key[2])
         IN  SqlLoop(Tail(keys), job_list,
                     IF dedup.unique_queries = <<>> THEN logged
                     ELSE WriteSqlFile(logged, sql_path,
                                       LatestQuery(dedup.unique_queries).query, sql_faults),
                     sql_faults, log_faults)

generate_sql_files(job_list, files, log_files, sql_faults, log_faults) ==
    SqlLoop(SqlKeys(job_list, <<>>), job_list, Outcome(files, log_files, {}, {}),
            sql_faults, log_faults)

-----------------------------------------------------------------------------
(* The metadata the collector may hand over                                *)

MaxTables == 2

MaxJobs == 2

MaxSqlJobs == 3

Ref(project, dataset, table) ==
    [projectId |-> project, datasetId |-> dataset, tableId |-> table]

RefA == Ref(<<"p">>, <<"e">>, <<"a">>)

RefB == Ref(<<"p">>, <<"d">>, <<"b">>)

RefC == Ref(<<"q">>, <<"d">>, <<"a">>)

RefQ == Ref(<<"q">>, <<"e">>, <<"a">>)

RefX == Ref(<<"q">>, <<"d">>, <<"x">>)

RefY == Ref(<<"p">>, <<"d">>, <<"a", "b">>)

Column(name, description, tags, policy_tags, fields) ==
    [name |-> name, description |-> description, tags |-> tags,
     policy_tags |-> policy_tags, fields |-> fields]

Table(ref, table_type, columns, partitioning, clustering, labels) ==
    [project_id |-> ref.projectId, dataset_id |-> ref.datasetId, table_id |-> ref.tableId,
     table_type |-> table_type, columns |-> columns, partitioning |-> partitioning,
     clustering |-> clustering, labels |-> labels]

\* A partitioned table with a nested record column and policy tags (the
\* collector leaves the tags of every column empty).
TableA ==
    Table(RefA, "TABLE",
          <<Column(<<"r">>, None, <<>>, <<>>,
                   <<Column(<<"f">>, Some(<<"n">>), <<>>, <<<<"s">>>>, <<>>)>>),
            Column(<<"i", "d">>, Some(<<"k">>), <<>>, <<<<"y">>, <<"x">>>>, <<>>)>>,
          Some([type |-> <<"D", "A", "Y">>, field |-> <<"d", "t">>,
                expirationMs |-> <<"2", "5", "9", "2", "0", "0", "0", "0", "0">>]),
          None, None)

\* A view without columns.
TableB == Table(RefB, "VIEW", <<>>, None, Some(<<<<"c">>>>), None)

\* A materialized view with a dotted column name, ingestion-time partitioning
\* and labels.
TableC ==
    Table(Ref(<<"p">>, <<"d">>, <<"a">>), "MATERIALIZED_VIEW",
          <<Column(<<"b", ".", "c">>, Some(<<>>), <<>>, <<>>, <<>>),
            Column(<<"b">>, None, <<>>, <<>>, <<>>)>>,
          Some([type |-> <<"D", "A", "Y">>]),
          None, Some([env |-> <<"x">>]))

\* The tables of a listing: the collector writes the project of the migration,
\* here p, into every table.
TableChoices == {TableA, TableB, TableC}

Job(created_time, destination_table, query, referenced_tables) ==
    [created_time |-> created_time, destination_table |-> destination_table,
     query |-> query, referenced_tables |-> referenced_tables]

\* Jobs that differ in destination and referenced tables (the builder's input):
\* references to the destination itself, to other listed tables and to tables
\* outside the listing, some of them repeated.
BuildJobs ==
    {Job(1, dest, Some(QueryA), refs) :
        dest \in {None, Some(RefA), Some(RefB)},
        refs \in {<<>>, <<RefA, RefB>>, <<RefY, RefX, RefY>>}}

\* Jobs that differ in destination, query text and creation time (the
\* deduplicator's input).  RefQ shares dataset and table name with RefA; one job
\* has no destination table.
SqlJobs ==
    {Job(created_time, Some(RefA), query, <<>>) :
        created_time \in {1, 2},
        query \in {None, Some(QueryA), Some(QueryA2), Some(QueryB)}}
    \cup {Job(2, Some(RefQ), Some(QueryB), <<>>), Job(1, Some(RefQ), Some(QueryA2), <<>>),
          Job(1, Some(RefC), Some(QueryB), <<>>), Job(2, None, Some(QueryA), <<>>)}

\* job.job_id of the n-th job listed: "j1", "j2", ...
JobId(n) == <<"j", CHOOSE c \in DOMAIN Ord : Ord[c] = Ord["0"] + n>>

-----------------------------------------------------------------------------
(* src/models/orchestration.py: ProjectMigrationManager.migrate_location   *)

\* No command line, orchestrator or DataformMigration is involved.
NotOrchestrated ==
    /\ cli_config = None
    /\ project_index = 0
    /\ results = <<>>
    /\ state = None
    /\ metrics_errors = <<>>
    /\ location_index = 0
    /\ success = TRUE
    /\ attempts = <<>>
    /\ status = None
    /\ exit_code = None
    /\ context = None
    /\ output_dirs = <<>>

\* The files under definitions/ when the run starts: a new output directory, or
\* one where an earlier run left the SQL file of d.a.
PriorSqlFiles == {<<>>, SqlPath(<<"d">>, <<"a">>) :> QueryB}

Init ==
    /\ pc = "collect"
    /\ tables = <<>>
    /\ jobs = <<>>
    /\ actions_config = None
    /\ actions_yaml = None
    /\ sql_files \in PriorSqlFiles
    /\ logs = <<>>
    /\ write_errors = {}
    /\ truncated = {}
    /\ errors = 0
    /\ result = None
    /\ fn_call = None
    /\ fn_ret = None
    /\ NotOrchestrated

\* collector.collect_table_metadata appends one table; tables are listed before
\* jobs and every table of the project is listed once.
CollectTable ==
    /\ pc = "collect"
    /\ jobs = <<>>
    /\ Len(tables) < MaxTables
    /\ \E table \in TableChoices :
          /\ \A i \in 1..Len(tables) : TableKey(tables[i]) # TableKey(table)
          /\ tables' = Append(tables, table)
    /\ UNCHANGED orchestration_vars
    /\ UNCHANGED <<pc, jobs, actions_config, actions_yaml, sql_files, logs, write_errors, truncated,
                   errors, result, fn_call, fn_ret>>

\* collector.collect_job_metadata appends one query job.
CollectJob(choices, max) ==
    /\ pc = "collect"
    /\ Len(jobs) < max
    /\ \E job \in choices :
          jobs' = Append(jobs, [job_id |-> JobId(Len(jobs) + 1)] @@ job)
    /\ UNCHANGED orchestration_vars
    /\ UNCHANGED <<pc, tables, actions_config, actions_yaml, sql_files, logs, write_errors,
                   truncated,
                   errors, result, fn_call, fn_ret>>

\* _setup_location, collector.collect() or a save of DataPersistence raises:
\* migrate_location records the error and returns False.
CollectionFails ==
    /\ pc = "collect"
    /\ pc' = "done"
    /\ errors' = errors + 1
    /\ result' = Some(FALSE)
    /\ UNCHANGED orchestration_vars
    /\ UNCHANGED <<tables, jobs, actions_config, actions_yaml, sql_files, logs, write_errors,
                   truncated,
                   fn_call, fn_ret>>

\* The files under definitions/ after generate_action ran for every table.
RECURSIVE EnsureSqlFiles(_, _)
EnsureSqlFiles(files, table_list) ==
    IF table_list = <<>> THEN files
    ELSE EnsureSqlFiles(_ensure_sql_file(files, Head(table_list).dataset_id,
                                         Head(table_list).table_id),
                        Tail(table_list))

\* actions_generator.generate_actions_yaml(metadata.tables, metadata.jobs).  It
\* raises when the mkdir or the touch of _ensure_sql_file raises for a table
\* whose SQL file is not there yet (the files of the tables before it were
\* created) and when to_dict raises ValueError; migrate_location catches the
\* exception, records the error and returns False.  Sets are iterated in an
\* order that is not fixed by the program: any order may occur.
CallGenerateActionsYaml ==
    /\ \/ \E failing \in 1..Len(tables) :
              LET ensured == EnsureSqlFiles(sql_files, SubSeq(tables, 1, failing - 1))
              IN  /\ SqlPath(tables[failing].dataset_id, tables[failing].table_id)
                         \notin DOMAIN ensured
                  /\ sql_files' = ensured
                  /\ pc' = "done"
                  /\ errors' = errors + 1
                  /\ result' = Some(FALSE)
                  /\ UNCHANGED actions_config
       \/ \E dep_lists \in DepLists(tables, jobs),
              decl_order \in Orderings(AllDependencies(tables, jobs)) :
              /\ sql_files' = EnsureSqlFiles(sql_files, tables)
              /\ IF generate_actions_yaml_raises(tables, jobs, dep_lists, decl_order)
                   THEN /\ pc' = "done"
                        /\ errors' = errors + 1
                        /\ result' = Some(FALSE)
                        /\ UNCHANGED actions_config
                   ELSE /\ pc' = "generated"
                        /\ actions_config' =
                              Some(generate_actions_yaml(tables, jobs, dep_lists, decl_order))
                        /\ UNCHANGED <<errors, result>>
    /\ UNCHANGED orchestration_vars
    /\ UNCHANGED <<tables, jobs, actions_yaml, logs, write_errors, truncated, fn_call, fn_ret>>

GenerateActionsYaml ==
    /\ pc = "collect"
    /\ CallGenerateActionsYaml

\* A second call of generate_actions_yaml on the same tables and jobs.
RegenerateActionsYaml ==
    /\ pc = "generated"
    /\ CallGenerateActionsYaml

\* actions_generator.write_actions_yaml(actions_config) succeeds.
WriteActionsYaml ==
    /\ pc = "generated"
    /\ pc' = "written"
    /\ actions_yaml' = actions_config
    /\ UNCHANGED orchestration_vars
    /\ UNCHANGED <<tables, jobs, actions_config, sql_files, logs, write_errors,
                   truncated, errors, result,
                   fn_call, fn_ret>>

\* What a dump that raised with the manifest begun leaves in actions.yaml: a
\* proper, non-empty prefix of the text of the configuration.
PartialManifest(config) == [partial |-> config]

\* actions.yaml with nothing in it.
EmptyManifest == <<>>

\* actions.yaml after write_actions_yaml(config) raised: the open raised and
\* the file is as it was, or the open with mode 'w' emptied the file and the
\* dump raised with nothing or with part of the manifest written.
FailedManifest(manifest, config, raises) ==
    IF raises = "open" THEN manifest
    ELSE IF raises = "empty" THEN Some(EmptyManifest)
    ELSE Some(PartialManifest(config))

\* write_actions_yaml raises and migrate_location records the error and
\* returns False.
WriteActionsYamlFails ==
    /\ pc = "generated"
    /\ pc' = "done"
    /\ \E raises \in {"open", "empty", "part"} :
          actions_yaml' = FailedManifest(actions_yaml, actions_config[1], raises)
    /\ errors' = errors + 1
    /\ result' = Some(FALSE)
    /\ UNCHANGED orchestration_vars
    /\ UNCHANGED <<tables, jobs, actions_config, sql_files, logs, write_errors, truncated,
                   fn_call, fn_ret>>

\* The SQL paths generate_sql_files opens for writing: those of the keys with a
\* job that has query text (unique_queries is then not empty).
SqlWritePaths(job_list) ==
    {SqlPath(SqlKey(job_list[i])[1], SqlKey(job_list[i])[2]) :
        i \in {k \in 1..Len(job_list) :
                  job_list[k].destination_table # None /\ Truthy(job_list[k].query)}}

\* The log paths generate_sql_files opens for appending: those of the keys with
\* a job that scores at or above the threshold against an earlier job of the
\* key (that job, or an earlier one, is then logged as a duplicate).
LogWritePaths(job_list) ==
    {LogPath(SqlKey(job_list[i])[1], SqlKey(job_list[i])[2]) :
        i \in {k \in 1..Len(job_list) :
                  /\ job_list[k].destination_table # None
                  /\ Truthy(job_list[k].query)
                  /\ \E e \in 1..(k - 1) :
                        /\ job_list[e].destination_table # None
                        /\ SqlKey(job_list[e]) = SqlKey(job_list[k])
                        /\ Truthy(job_list[e].query)
                        /\ FracGeq(SimilarityTable[job_list[k].query[1], job_list[e].query[1]],
                                   similarity_threshold)}}

\* The jobs for which deduplicate_queries may call _log_deduplication_decision:
\* those scoring at or above the threshold against an earlier job of their key.
LogCallers(job_list) ==
    {job_list[k].job_id :
        k \in {i \in 1..Len(job_list) :
                  /\ job_list[i].destination_table # None
                  /\ Truthy(job_list[i].query)
                  /\ \E e \in 1..(i - 1) :
                        /\ job_list[e].destination_table # None
                        /\ SqlKey(job_list[e]) = SqlKey(job_list[i])
                        /\ Truthy(job_list[e].query)
                        /\ FracGeq(SimilarityTable[job_list[i].query[1], job_list[e].query[1]],
                                   similarity_threshold)}}

\* The length of the longest query text of the jobs.
LongestQuery(job_list) ==
    LET lengths == {0} \cup {Len(job_list[i].query[1]) :
                                i \in {k \in 1..Len(job_list) : job_list[k].query # None}}
    IN  CHOOSE n \in lengths : \A m \in lengths : m <= n

\* The faults the SQL writes of a run over the jobs may meet: for any of the
\* paths, the open raising or the write raising after any number of characters.
SqlFaultChoices(job_list) ==
    UNION {[paths -> {OpenRaises} \cup {WriteRaises(n) : n \in 0..(LongestQuery(job_list) - 1)}] :
              paths \in SUBSET SqlWritePaths(job_list)}

\* The faults the log writes of a run over the jobs may meet, call by call.
LogFaultChoices(job_list) ==
    UNION {[ids -> LogFaults] : ids \in SUBSET LogCallers(job_list)}

\* The files and the logged errors generate_sql_files leaves.
Leaves(out) ==
    /\ sql_files' = out.sql_files
    /\ logs' = out.logs
    /\ write_errors' = out.write_errors
    /\ truncated' = out.truncated

\* sql_generator.generate_sql_files(metadata.jobs), then return True.
GenerateSqlFiles ==
    /\ pc = "written"
    /\ \E sql_faults \in SqlFaultChoices(jobs), log_faults \in LogFaultChoices(jobs) :
          Leaves(generate_sql_files(jobs, sql_files, logs, sql_faults, log_faults))
    /\ pc' = "done"
    /\ result' = Some(TRUE)
    /\ UNCHANGED orchestration_vars
    /\ UNCHANGED <<tables, jobs, actions_config, actions_yaml, errors, fn_call, fn_ret>>

Next ==
    \/ CollectTable
    \/ CollectJob(BuildJobs, MaxJobs)
    \/ CollectionFails
    \/ GenerateActionsYaml
    \/ RegenerateActionsYaml
    \/ WriteActionsYaml
    \/ WriteActionsYamlFails
    \/ GenerateSqlFiles

Spec == Init /\ [][Next]_vars

NextSql ==
    \/ CollectJob(SqlJobs, MaxSqlJobs)
    \/ CollectionFails
    \/ GenerateActionsYaml
    \/ WriteActionsYaml
    \/ WriteActionsYamlFails
    \/ GenerateSqlFiles

\* The runs of SpecSql write into a new output directory.
InitSql == Init /\ sql_files = <<>>

SpecSql == InitSql /\ [][NextSql]_vars

\* The jobs of an earlier run against the same output directory: the second is
\* a duplicate of the first.
EarlierJobs ==
    <<[job_id |-> JobId(8)] @@ Job(1, Some(RefA), Some(QueryA), <<>>),
      [job_id |-> JobId(9)] @@ Job(2, Some(RefA), Some(QueryA2), <<>>)>>

\* What generate_sql_files over EarlierJobs leaves in a new output directory:
\* the SQL file of p.e.a and one decision record in its log.
EarlierRun ==
    [sql_files |-> SqlPath(<<"e">>, <<"a">>) :> QueryA,
     logs |-> LogPath(<<"e">>, <<"a">>) :>
                 <<[job_id |-> JobId(9),
                    created_time |-> 2,
                    similar_queries |-> <<[job_id |-> JobId(8),
                                           similarity |-> [num |-> 30, den |-> 30]]>>,
                    reason |-> similarity_threshold]>>]

\* EarlierRun is what the model of generate_sql_files computes.
EarlierRunAgrees ==
    generate_sql_files(EarlierJobs, <<>>, <<>>, NoFaults, NoFaults)
        = Outcome(EarlierRun.sql_files, EarlierRun.logs, {}, {})

\* A run that starts on a new output directory, or on the one of the earlier
\* run.
InitRuns ==
    /\ pc = "collect"
    /\ tables = <<>>
    /\ jobs = <<>>
    /\ actions_config = None
    /\ actions_yaml = None
    /\ \E earlier \in {[sql_files |-> <<>>, logs |-> <<>>], EarlierRun} :
          /\ sql_files = earlier.sql_files
          /\ logs = earlier.logs
    /\ write_errors = {}
    /\ truncated = {}
    /\ errors = 0
    /\ result = None
    /\ fn_call = None
    /\ fn_ret = None
    /\ NotOrchestrated

SpecRuns == InitRuns /\ [][NextSql]_vars

-----------------------------------------------------------------------------
(* The functions of the library called on their own                        *)

\* What a call produces: the value it returns or the exception it raises.
Returned(value) == [raised |-> FALSE, value |-> value]

Raised(error) == [raised |-> TRUE, error |-> error]

\* ActionDefinition objects built directly: every type, with and without a
\* filename, columns and dependency targets; the lists of two are in descending
\* order, as are the tags and policy tags of a column.
ActionChoices ==
    {[type |-> type,
      name |-> <<"x">>,
      schema |-> <<"d">>,
      project |-> <<"q">>,
      filename |-> filename,
      description |-> None,
      columns |-> columns,
      dependency_targets |-> dependency_targets,
      config |-> <<>>,
      disabled |-> None] :
        type \in {"declaration", "table", "view"},
        filename \in {None, Some(<<>>), Some(SqlPath(<<"d">>, <<"x">>))},
        columns \in {<<>>,
                     <<[path |-> <<<<"c">>>>, description |-> None, tags |-> <<>>,
                        bigquery_policy_tags |-> <<>>]>>,
                     <<[path |-> <<<<"r">>, <<"f">>>>, description |-> None,
                        tags |-> <<<<"z">>, <<"b">>>>,
                        bigquery_policy_tags |-> <<<<"y">>, <<"x">>>>],
                       [path |-> <<<<"i", "d">>>>, description |-> None, tags |-> <<>>,
                        bigquery_policy_tags |-> <<>>]>>},
        dependency_targets \in {<<>>,
                                <<DependencyTarget(<<"p">>, <<"e">>, <<"a">>)>>,
                                <<DependencyTarget(<<"p">>, <<"e">>, <<"b">>),
                                  DependencyTarget(<<"p">>, <<"e">>, <<"a">>)>>}}

\* Lists of actions as generate_actions_yaml renders them, some of them holding
\* an action without filename.
ActionListChoices ==
    LET plain == {a \in ActionChoices : a.columns = <<>> /\ a.dependency_targets = <<>>}
        picked == {a \in plain : a.type = "table" \/ (a.type = "declaration" /\ a.filename = None)}
    IN  {<<a>> : a \in picked} \cup {<<a, b>> : a \in picked, b \in picked}

\* Partitioning dicts: empty, without field, without and with expirationMs, the
\* expiration a whole number of days, one millisecond more and one less.
PartitioningChoices ==
    LET day == [type |-> <<"D", "A", "Y">>]
        fields == {day, Update(day, [field |-> <<"d", "t">>])}
    IN  {None, Some(<<>>)} \cup {Some(d) : d \in fields}
        \cup {Some(Update(d, [expirationMs |-> e])) :
                 d \in fields, e \in ExpirationTexts}

ConfigTableChoices ==
    {Table(RefA, "TABLE", <<>>, partitioning, clustering, labels) :
        partitioning \in PartitioningChoices,
        clustering \in {None, Some(<<<<"c">>>>)},
        labels \in {None, Some([env |-> <<"x">>])}}

\* Two texts that difflib scores differently in the two orders.
QueryTide == <<"t", "i", "d", "e", " ", "t", "i", "d", "e", " ", "x">>

QueryDiet == <<"d", "i", "e", "t", " ", "d", "i", "e", "t", " ", "x">>

\* A text of more than min_length characters that is QueryShort once normalised.
QueryShortCommented ==
    <<"s", "e", "l", "e", "c", "t", " ", " ", "1", " ", "-", "-", " ", "x", "y">>

\* A text of exactly min_length characters.
QueryTen == <<"s", "e", "l", "e", "c", "t", " ", "1", "2", "3">>

SimilarityInputs ==
    {<<>>, QueryShort, QueryShortCommented, QueryTen, QueryTide, QueryDiet, QueryA2}

\* One or two jobs for the same destination, with or without query text, and
\* two near-identical jobs with and without destination table.
DedupJobChoices ==
    LET queries == {None, Some(QueryShort), Some(QueryA), Some(QueryB)}
        job(n, query) == [job_id |-> JobId(n)] @@ Job(n, Some(RefA), query, <<>>)
        near(n, dest, query) == [job_id |-> JobId(n)] @@ Job(n, dest, Some(query), <<>>)
    IN  {<<job(1, q)>> : q \in queries}
        \cup {<<job(1, q1), job(2, q2)>> : q1 \in queries, q2 \in queries}
        \cup {<<near(1, dest, QueryA), near(2, dest, QueryA2)>> : dest \in {None, Some(RefA)}}

CallChoices ==
    {[fn |-> "ActionDefinition.to_dict", self |-> a] : a \in ActionChoices}
    \cup {[fn |-> "actions_to_dict", actions |-> l] : l \in ActionListChoices}
    \cup {[fn |-> "_generate_config_from_table", table |-> t] : t \in ConfigTableChoices}
    \cup {[fn |-> "calculate_similarity", query1 |-> a, query2 |-> b] :
             a \in SimilarityInputs, b \in SimilarityInputs}
    \cup {[fn |-> "deduplicate_queries", jobs |-> l] : l \in DedupJobChoices}
    \cup {[fn |-> "migrate_location", actions |-> l] : l \in ActionListChoices}

\* A caller holds the arguments of one call.
InitCalls ==
    /\ pc = "collect"
    /\ tables = <<>>
    /\ jobs = <<>>
    /\ actions_config = None
    /\ actions_yaml = None
    /\ sql_files = <<>>
    /\ logs = <<>>
    /\ write_errors = {}
    /\ truncated = {}
    /\ errors = 0
    /\ result = None
    /\ fn_call \in {Some(c) : c \in CallChoices}
    /\ fn_ret = None
    /\ NotOrchestrated

\* The call named fn is made and what it produces is kept.
Calls(fn, produced) ==
    /\ fn_call # None
    /\ fn_ret = None
    /\ fn_call[1].fn = fn
    /\ fn_ret' = Some(produced)
    /\ UNCHANGED orchestration_vars
    /\ UNCHANGED <<pc, tables, jobs, fn_call>>

\* The function called writes no file and is not part of a migration.
WritesNothing ==
    UNCHANGED <<actions_config, actions_yaml, sql_files, logs, write_errors, truncated,
                errors, result>>

\* action.to_dict()
ActionDefinition_to_dict_call(self) ==
    IF ActionDefinition_to_dict_raises(self) THEN Raised("ValueError")
    ELSE Returned(ActionDefinition_to_dict(self))

\* actions_config['actions'] = [action.to_dict() for action in actions]
actions_to_dict(actions) ==
    IF \E i \in 1..Len(actions) : ActionDefinition_to_dict_raises(actions[i])
      THEN Raised("ValueError")
      ELSE Returned([actions |-> Map(actions, ActionDefinition_to_dict)])

\* migrate_location with the error of the rendering swallowed: the manifest of
\* no action is written and True is returned.
migrate_location_rendered_swallows(rendered, manifest) ==
    LET config == IF rendered.raised THEN [actions |-> <<>>] ELSE rendered.value
    IN  [actions_config |-> Some(config), actions_yaml |-> Some(config),
         errors |-> 0, returned |-> TRUE]

\* migrate_location from the rendering of the actions on, the metadata holding
\* no job and no write failing: generate_actions_yaml returns the manifest,
\* write_actions_yaml writes it and True is returned; when the rendering raises,
\* generate_actions_yaml returns nothing, the except branch records the error
\* and returns False, and actions.yaml is as it was.
migrate_location_rendered(rendered, manifest) ==
    IF rendered.raised
      THEN [actions_config |-> None, actions_yaml |-> manifest,
            errors |-> 1, returned |-> FALSE]
      ELSE [actions_config |-> Some(rendered.value), actions_yaml |-> Some(rendered.value),
            errors |-> 0, returned |-> TRUE]

CallToDict ==
    /\ Calls("ActionDefinition.to_dict", ActionDefinition_to_dict_call(fn_call[1].self))
    /\ WritesNothing

CallActionsToDict ==
    /\ Calls("actions_to_dict", actions_to_dict(fn_call[1].actions))
    /\ WritesNothing

CallGenerateConfigFromTable ==
    /\ Calls("_generate_config_from_table",
             Returned(_generate_config_from_table(fn_call[1].table)))
    /\ WritesNothing

CallCalculateSimilarity ==
    /\ Calls("calculate_similarity",
             Returned(calculate_similarity(fn_call[1].query1, fn_call[1].query2)))
    /\ WritesNothing

\* deduplicate_queries(jobs) called on its own: it returns unique_queries (kept
\* with the calls made to the logger) and every call of
\* _log_deduplication_decision appends to its log or logs its error.
CallDeduplicateQueries ==
    /\ Calls("deduplicate_queries", Returned(deduplicate_queries(fn_call[1].jobs)))
    /\ \E log_faults \in LogFaultChoices(fn_call[1].jobs) :
          Leaves(LogAll(Outcome(sql_files, logs, {}, {}),
                        deduplicate_queries(fn_call[1].jobs).calls, log_faults))
    /\ UNCHANGED <<actions_config, actions_yaml, errors, result>>

\* migrate_location, the actions generate_actions_yaml sorted being the given
\* ones: generate_action made each of them that is no declaration from a table
\* of the collector and created the SQL file of that table before the rendering.
CallMigrateLocation ==
    /\ fn_call # None
    /\ fn_call[1].fn = "migrate_location"
    /\ LET out == migrate_location_rendered(actions_to_dict(fn_call[1].actions), actions_yaml)
       IN  /\ Calls("migrate_location", Returned(out.returned))
           /\ actions_config' = out.actions_config
           /\ actions_yaml' = out.actions_yaml
           /\ errors' = errors + out.errors
           /\ result' = Some(out.returned)
    /\ sql_files' = EnsureSqlFiles(sql_files,
                                   Map(SelectSeq(fn_call[1].actions,
                                                 LAMBDA a : a.type # "declaration"),
                                       LAMBDA a : [dataset_id |-> a.schema,
                                                   table_id |-> a.name]))
    /\ UNCHANGED <<logs, write_errors, truncated>>

NextCalls ==
    \/ CallToDict
    \/ CallActionsToDict
    \/ CallGenerateConfigFromTable
    \/ CallCalculateSimilarity
    \/ CallDeduplicateQueries
    \/ CallMigrateLocation

SpecCalls == InitCalls /\ [][NextCalls]_vars

-----------------------------------------------------------------------------
(* src/cli/main.py, src/cli/handlers.py and the project loop of             *)
(* src/models/orchestration.py                                              *)

\* value.split(sep)
RECURSIVE split(_, _)
split(value, sep) ==
    IF \A i \in 1..Len(value) : value[i] # sep THEN <<value>>
    ELSE LET i == CHOOSE k \in 1..Len(value) :
                      value[k] = sep /\ \A e \in 1..(k - 1) : value[e] # sep
         IN  <<SubSeq(value, 1, i - 1)>> \o split(SubSeq(value, i + 1, Len(value)), sep)

\* item.strip(): item without the whitespace at its ends
RECURSIVE strip(_)
strip(item) ==
    IF item = <<>> THEN item
    ELSE IF IsSpace(Head(item)) THEN strip(Tail(item))
    ELSE IF IsSpace(item[Len(item)]) THEN strip(SubSeq(item, 1, Len(item) - 1))
    ELSE item

\* [item.strip() for item in value.split(',') if item.strip()]
parse_comma_separated(value) ==
    SelectSeq(Map(split(value, ","), strip), LAMBDA item : item # <<>>)

\* config.validate(): the message of the ValueError it raises, or None.  The
\* threshold is a fraction with a positive denominator.
CLIConfig_validate(self) ==
    IF self.projects = <<>> \/ \E i \in 1..Len(self.projects) : self.projects[i] = <<>>
      THEN Some("At least one project must be specified")
    ELSE IF self.locations = <<>> \/ \E i \in 1..Len(self.locations) : self.locations[i] = <<>>
      THEN Some("At least one location must be specified")
    ELSE IF self.days_of_history < 1 THEN Some("Days of history must be positive")
    ELSE IF ~(0 <= self.similarity_threshold.num
              /\ self.similarity_threshold.num <= self.similarity_threshold.den)
      THEN Some("Similarity threshold must be between 0 and 1")
    ELSE None

\* The content of an output directory: the files under definitions/ and logs/
\* and actions.yaml.
Directory(files, log_files, manifest) ==
    [sql_files |-> files, logs |-> log_files, actions_yaml |-> manifest]

\* The calls inside the try of migrate_location that can raise out of it:
\* _setup_location (the directories, workflow_settings.yaml), the collector,
\* its close, the two saves of DataPersistence, generate_actions_yaml (the mkdir
\* or the touch of _ensure_sql_file) and write_actions_yaml.
LocationSteps ==
    {"_setup_location", "collect", "close", "save_tables", "save_jobs",
     "generate_actions_yaml", "write_actions_yaml"}

\* What the collector of a project hands over in a run of the command line:
\* nothing, or the view d.b, listed under the project being migrated, with two
\* near-identical jobs, the first reading another table; the jobs write into
\* p.d.b or into the view of the project.
CollectedChoices(project_id) ==
    {[tables |-> <<>>, jobs |-> <<>>]}
    \cup {[tables |-> <<[TableB EXCEPT !.project_id = project_id]>>,
           jobs |-> <<[job_id |-> JobId(1)] @@ Job(1, Some(dest), Some(QueryA), <<RefX>>),
                      [job_id |-> JobId(2)] @@ Job(2, Some(dest), Some(QueryA2), <<>>)>>] :
             dest \in {RefB, Ref(project_id, RefB.datasetId, RefB.tableId)}}

\* How generate_actions_yaml followed by write_actions_yaml goes on the
\* directory dir: the call that raises, or None; the table whose SQL file
\* _ensure_sql_file fails to create (its file is not there yet); how the write
\* of actions.yaml fails.
ManifestRuns(dir, table_list) ==
    {[raised |-> None, table |-> 0, manifest |-> ""]}
    \cup {[raised |-> Some("generate_actions_yaml"), table |-> k, manifest |-> ""] :
             k \in {i \in 1..Len(table_list) :
                       SqlPath(table_list[i].dataset_id, table_list[i].table_id)
                           \notin DOMAIN EnsureSqlFiles(dir.sql_files,
                                                        SubSeq(table_list, 1, i - 1))}}
    \cup {[raised |-> Some("write_actions_yaml"), table |-> 0, manifest |-> raises] :
             raises \in {"open", "empty", "part"}}

\* How a migration of a location into the directory dir goes, the collector
\* handing over metadata: the step that raises, or None, and the faults of the
\* SQL and log writes (none, or every SQL write raising after four characters;
\* none, or every log write raising within the line).
LocationRuns(dir, metadata) ==
    LET run(raised, table, manifest, sql_faults, log_faults) ==
            [raised |-> raised, table |-> table, manifest |-> manifest,
             sql_faults |-> sql_faults, log_faults |-> log_faults]
    IN  {run(Some(step), 0, "", NoFaults, NoFaults) :
            step \in LocationSteps \ {"generate_actions_yaml", "write_actions_yaml"}}
        \cup {run(m.raised, m.table, m.manifest, NoFaults, NoFaults) :
                m \in {r \in ManifestRuns(dir, metadata.tables) : r.raised # None}}
        \cup {run(None, 0, "", sql_faults, log_faults) :
                sql_faults \in {NoFaults,
                                [path \in SqlWritePaths(metadata.jobs) |-> WriteRaises(4)]},
                log_faults \in {NoFaults,
                                [id \in LogCallers(metadata.jobs) |-> "part"]}}

\* What a migration of a location leaves: the metadata collected, the manifest
\* generate_actions_yaml returned, actions.yaml, and the files, logs and logged
\* errors.
LocationOutcome(table_list, job_list, config, manifest, out) ==
    [tables |-> table_list, jobs |-> job_list, actions_config |-> config,
     actions_yaml |-> manifest, sql_files |-> out.sql_files, logs |-> out.logs,
     write_errors |-> out.write_errors, truncated |-> out.truncated]

\* generate_actions_yaml(tables, jobs) followed by write_actions_yaml on the
\* output directory dir, up to the call that raises: generate_action creates
\* the SQL file of every table that has none.
write_manifest(dir, metadata, run, dep_lists, decl_order) ==
    IF run.raised = Some("generate_actions_yaml")
      THEN LocationOutcome(metadata.tables, metadata.jobs, None, dir.actions_yaml,
                           Outcome(EnsureSqlFiles(dir.sql_files,
                                                  SubSeq(metadata.tables, 1, run.table - 1)),
                                   dir.logs, {}, {}))
    ELSE LocationOutcome(metadata.tables, metadata.jobs,
                         Some(generate_actions_yaml(metadata.tables, metadata.jobs,
                                                    dep_lists, decl_order)),
                         IF run.raised = Some("write_actions_yaml")
                           THEN FailedManifest(dir.actions_yaml,
                                               generate_actions_yaml(metadata.tables,
                                                                     metadata.jobs,
                                                                     dep_lists, decl_order),
                                               run.manifest)
                           ELSE Some(generate_actions_yaml(metadata.tables, metadata.jobs,
                                                           dep_lists, decl_order)),
                         Outcome(EnsureSqlFiles(dir.sql_files, metadata.tables),
                                 dir.logs, {}, {}))

\* The try of migrate_location on the output directory dir, up to its return
\* or to the step that raises.
migrate_location_try(dir, metadata, run, dep_lists, decl_order) ==
    IF run.raised \in {Some("_setup_location"), Some("collect")}
      THEN LocationOutcome(<<>>, <<>>, None, dir.actions_yaml,
                           Outcome(dir.sql_files, dir.logs, {}, {}))
    ELSE IF run.raised \in {Some("close"), Some("save_tables"), Some("save_jobs")}
      THEN LocationOutcome(metadata.tables, metadata.jobs, None, dir.actions_yaml,
                           Outcome(dir.sql_files, dir.logs, {}, {}))
    ELSE IF run.raised # None
      THEN write_manifest(dir, metadata, run, dep_lists, decl_order)
    ELSE LocationOutcome(metadata.tables, metadata.jobs,
                         Some(generate_actions_yaml(metadata.tables, metadata.jobs,
                                                    dep_lists, decl_order)),
                         Some(generate_actions_yaml(metadata.tables, metadata.jobs,
                                                    dep_lists, decl_order)),
                         generate_sql_files(metadata.jobs,
                                            EnsureSqlFiles(dir.sql_files, metadata.tables),
                                            dir.logs, run.sql_faults, run.log_faults))

\* migrate_location(location_config), where raised is the step that raised or
\* None: the errors of the metrics afterwards and the value returned.
migrate_location(metrics, location_name, raised) ==
    IF raised = None THEN [errors |-> metrics, returned |-> TRUE]
    ELSE [errors |-> Append(metrics, [component |-> "migration_location",
                                      error |-> raised[1],
                                      context |-> [location |-> location_name]]),
          returned |-> FALSE]

\* The loop of migrate with a break at the first location that fails.
migrate_loop_stop_at_failure(locations, index, succ, returned) ==
    [location_index |-> IF returned THEN index + 1 ELSE Len(locations) + 1,
     success |-> IF ~returned THEN FALSE ELSE succ]

\* One pass of the loop of migrate, migrate_location having returned:
\*     if not self.migrate_location(location_config): success = False
migrate_loop(locations, index, succ, returned) ==
    [location_index |-> index + 1, success |-> IF ~returned THEN FALSE ELSE succ]

\* MigrationStatus.COMPLETED if success else MigrationStatus.FAILED
migrate_final_state(succ) == IF succ THEN "COMPLETED" ELSE "FAILED"

\* return 0 if all(results.values()) else 1
handler_run_status(res) == IF \A p \in DOMAIN res : res[p] THEN 0 ELSE 1

\* The exit status of sys.exit(arg): 0 for None, the integer otherwise.
sys_exit(arg) == IF arg = None THEN 0 ELSE arg[1]

\* The command lines: --project absent, one or two projects, a repeated
\* project, no project between the commas; --location at its default, two
\* locations with whitespace around them, blank; --days at its default and 0;
\* --similarity-threshold at its default and 1.5.
RunCliArgs ==
    {[fn |-> "run_cli", project |-> p, location |-> l, days |-> d, similarity_threshold |-> s] :
        p \in {None, Some(<<"p">>), Some(<<"p", ",", " ", "q">>), Some(<<"p", ",", "p">>),
               Some(<<",">>)},
        l \in {<<"U", "S">>, <<"U", "S", "\t", ",", "\n", "E", "U">>, <<" ">>},
        d \in {30, 0},
        s \in {similarity_threshold, [num |-> 3, den |-> 2]}}

InitCli ==
    /\ pc = "run_cli"
    /\ tables = <<>>
    /\ jobs = <<>>
    /\ actions_config = None
    /\ actions_yaml = None
    /\ sql_files = <<>>
    /\ logs = <<>>
    /\ write_errors = {}
    /\ truncated = {}
    /\ errors = 0
    /\ result = None
    /\ fn_call \in {Some(c) : c \in RunCliArgs}
    /\ fn_ret = None
    /\ NotOrchestrated

\* run_cli up to the call of handler.run(): parse_args exits with status 2 when
\* --project is missing; a ValueError of validate and an OSError of the mkdir in
\* the orchestrator's constructor are caught and run_cli returns 1.
RunCliStart ==
    /\ pc = "run_cli"
    /\ IF fn_call[1].project = None
         THEN /\ pc' = "exited"
              /\ exit_code' = Some(2)
              /\ UNCHANGED <<cli_config, fn_ret>>
         ELSE LET built == [projects |-> parse_comma_separated(fn_call[1].project[1]),
                            locations |-> parse_comma_separated(fn_call[1].location),
                            days_of_history |-> fn_call[1].days,
                            similarity_threshold |-> fn_call[1].similarity_threshold]
              IN  /\ cli_config' = Some(built)
                  /\ UNCHANGED exit_code
                  /\ \E mkdir_fails \in BOOLEAN :
                        IF CLIConfig_validate(built) # None \/ mkdir_fails
                          THEN /\ pc' = "returned"
                               /\ fn_ret' = Some(Returned(Some(1)))
                          ELSE /\ pc' = "migrate_projects"
                               /\ UNCHANGED fn_ret
    /\ UNCHANGED <<project_index, results, state, metrics_errors, location_index, success,
                   attempts, status, context, output_dirs, fn_call>>
    /\ UNCHANGED location_vars

\* migrate_projects: the first or next project gets its ProjectMigrationManager.
NextProject ==
    /\ pc = "migrate_projects"
    /\ project_index < Len(cli_config[1].projects)
    /\ project_index' = project_index + 1
    /\ state' = Some("NOT_STARTED")
    /\ metrics_errors' = <<>>
    /\ attempts' = <<>>
    /\ location_index' = 0
    /\ pc' = "migrate"
    /\ UNCHANGED <<cli_config, results, success, status, exit_code, context, output_dirs,
                   fn_call, fn_ret>>
    /\ UNCHANGED location_vars

\* migrate: the state becomes IN_PROGRESS and the loop starts.
MigrateBegin ==
    /\ pc = "migrate"
    /\ state' = Some("IN_PROGRESS")
    /\ success' = TRUE
    /\ location_index' = 1
    /\ pc' = "locations"
    /\ UNCHANGED <<cli_config, project_index, results, metrics_errors, attempts, status,
                   exit_code, context, output_dirs, fn_call, fn_ret>>
    /\ UNCHANGED location_vars

\* What migrate_location leaves in the variables of the location and in the
\* output directory at key, and what the loop of migrate does with its value.
MigrateLocationLeaves(key, left, out, loop) ==
    /\ tables' = left.tables
    /\ jobs' = left.jobs
    /\ actions_config' = left.actions_config
    /\ actions_yaml' = left.actions_yaml
    /\ sql_files' = left.sql_files
    /\ logs' = left.logs
    /\ write_errors' = left.write_errors
    /\ truncated' = left.truncated
    /\ errors' = Len(out.errors)
    /\ result' = Some(out.returned)
    /\ output_dirs' = Update(output_dirs,
                             key :> Directory(left.sql_files, left.logs, left.actions_yaml))
    /\ metrics_errors' = out.errors
    /\ attempts' = Append(attempts, [location |-> key[2], returned |-> out.returned])
    /\ location_index' = loop.location_index
    /\ success' = loop.success

\* migrate: one location is migrated into base_dir/project/location, which an
\* earlier migration of the same project and location may have filled; any
\* step of migrate_location may raise.
MigrateLocation ==
    /\ pc = "locations"
    /\ location_index <= Len(cli_config[1].locations)
    /\ \E key \in {<<cli_config[1].projects[project_index],
                    cli_config[1].locations[location_index]>>} :
       \E dir \in {IF key \in DOMAIN output_dirs THEN output_dirs[key]
                   ELSE Directory(<<>>, <<>>, None)} :
       \E metadata \in CollectedChoices(key[1]) :
       \E run \in LocationRuns(dir, metadata) :
       \E dep_lists \in DepLists(metadata.tables, metadata.jobs),
          decl_order \in Orderings(AllDependencies(metadata.tables, metadata.jobs)) :
          MigrateLocationLeaves(
              key,
              migrate_location_try(dir, metadata, run, dep_lists, decl_order),
              migrate_location(metrics_errors, key[2], run.raised),
              migrate_loop(cli_config[1].locations, location_index, success,
                           migrate_location(metrics_errors, key[2], run.raised).returned))
    /\ UNCHANGED <<pc, cli_config, project_index, results, state, status, exit_code, context,
                   fn_call, fn_ret>>

\* migrate: after the loop the state becomes COMPLETED or FAILED and success is
\* returned; migrate_projects stores it under the project.
MigrateEnd ==
    /\ pc = "locations"
    /\ location_index > Len(cli_config[1].locations)
    /\ state' = Some(migrate_final_state(success))
    /\ results' = Update(results, cli_config[1].projects[project_index] :> success)
    /\ pc' = "migrate_projects"
    /\ UNCHANGED <<cli_config, project_index, metrics_errors, location_index, success,
                   attempts, status, exit_code, context, output_dirs, fn_call, fn_ret>>
    /\ UNCHANGED location_vars

\* handler.run() returns 0 if every result is True and 1 otherwise.
HandlerRunReturns ==
    /\ pc = "migrate_projects"
    /\ project_index = Len(cli_config[1].projects)
    /\ status' = Some(handler_run_status(results))
    /\ pc' = "status"
    /\ UNCHANGED <<cli_config, project_index, results, state, metrics_errors, location_index,
                   success, attempts, exit_code, context, output_dirs, fn_call, fn_ret>>
    /\ UNCHANGED location_vars

\* run_cli after handler.run(): it logs the outcome and reaches the end of the
\* function without a return statement, so it returns None.
RunCliReturns ==
    /\ pc = "status"
    /\ fn_ret' = Some(Returned(None))
    /\ pc' = "returned"
    /\ UNCHANGED <<cli_config, project_index, results, state, metrics_errors, location_index,
                   success, attempts, status, exit_code, context, output_dirs, fn_call>>
    /\ UNCHANGED location_vars

\* main: sys.exit(run_cli())
MainExits ==
    /\ pc = "returned"
    /\ exit_code' = Some(sys_exit(fn_ret[1].value))
    /\ pc' = "exited"
    /\ UNCHANGED <<cli_config, project_index, results, state, metrics_errors, location_index,
                   success, attempts, status, context, output_dirs, fn_call, fn_ret>>
    /\ UNCHANGED location_vars

NextCli ==
    \/ RunCliStart
    \/ NextProject
    \/ MigrateBegin
    \/ MigrateLocation
    \/ MigrateEnd
    \/ HandlerRunReturns
    \/ RunCliReturns
    \/ MainExits

SpecCli == InitCli /\ [][NextCli]_vars

\* The code of the command line and of the orchestrator is sequential and every
\* loop runs over a finite list: a step that can be taken is taken.
SpecCliFair == SpecCli /\ WF_vars(NextCli)

-----------------------------------------------------------------------------
(* src/models/migrations.py: DataformMigration.execute                     *)

\* A job of the metadata a caller of execute built; created_tz tells whether its
\* created_time carries a time zone.
ExecuteJob(n, destination_table, query, created_tz) ==
    [job_id |-> JobId(n), created_tz |-> created_tz]
        @@ Job(n, destination_table, Some(query), <<>>)

\* The metadata of the contexts: no table and no job; a view with two
\* near-identical jobs into it; a table and a view with a job into the table and
\* two different jobs into the view, on whose created_time the caller disagrees
\* about the time zone.
ExecuteMetadata ==
    {[tables |-> <<>>, jobs |-> <<>>],
     [tables |-> <<TableB>>,
      jobs |-> <<ExecuteJob(1, Some(RefB), QueryA, TRUE),
                 ExecuteJob(2, Some(RefB), QueryA2, TRUE)>>],
     [tables |-> <<TableA, TableB>>,
      jobs |-> <<ExecuteJob(1, Some(RefA), QueryA, TRUE),
                 ExecuteJob(2, Some(RefB), QueryA, TRUE),
                 ExecuteJob(3, Some(RefB), QueryA2, FALSE),
                 ExecuteJob(4, Some(RefB), QueryB, FALSE)>>]}

\* The contexts execute is called with: metadata absent or given, start_time
\* given with or without a time zone (the default factory of the field is not
\* callable, so the caller passes it), nothing run yet.
ContextChoices ==
    {[metadata |-> metadata,
      start_time |-> start_time,
      end_time |-> None,
      status |-> "NOT_STARTED",
      metrics |-> [tables_processed |-> 0, jobs_processed |-> 0,
                   sql_files_generated |-> 0, errors_encountered |-> 0]] :
        metadata \in {None} \cup {Some(m) : m \in ExecuteMetadata},
        start_time \in {"aware", "naive"}}

InitExecute ==
    /\ pc = "execute"
    /\ tables = <<>>
    /\ jobs = <<>>
    /\ actions_config = None
    /\ actions_yaml = None
    /\ sql_files = <<>>
    /\ logs = <<>>
    /\ write_errors = {}
    /\ truncated = {}
    /\ errors = 0
    /\ result = None
    /\ fn_call = Some([fn |-> "execute"])
    /\ fn_ret = None
    /\ cli_config = None
    /\ project_index = 0
    /\ results = <<>>
    /\ state = None
    /\ metrics_errors = <<>>
    /\ location_index = 0
    /\ success = TRUE
    /\ attempts = <<>>
    /\ status = None
    /\ exit_code = None
    /\ output_dirs = <<>>
    /\ context \in {Some(c) : c \in ContextChoices}

\* self.context.metrics.errors_encountered += 1
CountError(ctx) ==
    [ctx EXCEPT !.metrics.errors_encountered = ctx.metrics.errors_encountered + 1]

\* _generate_dataform_configs and _generate_sql_files share their shape: False
\* without an error counted when there is no metadata, False with one error
\* counted when the generator raised, True otherwise.  The context afterwards
\* and the value returned.
GenerateStep(ctx, step, raised) ==
    IF ctx.metadata = None
      THEN [context |-> ctx, returned |-> FALSE, raised |-> FALSE]
    ELSE IF raised
      THEN [context |-> CountError(ctx), returned |-> FALSE, raised |-> TRUE]
    ELSE [context |-> IF step = "_generate_sql_files"
                        THEN [ctx EXCEPT !.metrics.sql_files_generated =
                                             Len(ctx.metadata[1].jobs)]
                        ELSE ctx,
          returned |-> TRUE, raised |-> FALSE]

\* The created_time of two entries of unique_queries cannot be compared: one
\* carries a time zone and the other does not.
MixedTimeZones(job_list, unique_queries) ==
    \E i, j \in 1..Len(job_list) :
        /\ \E u \in 1..Len(unique_queries) : unique_queries[u].job_id = job_list[i].job_id
        /\ \E u \in 1..Len(unique_queries) : unique_queries[u].job_id = job_list[j].job_id
        /\ job_list[i].created_tz # job_list[j].created_tz

\* max(unique_queries, key=created_time) for the jobs of the key raises
\* TypeError.
LatestQuery_raises(job_list, key) ==
    MixedTimeZones(job_list, deduplicate_queries(SqlJobsOf(job_list, key)).unique_queries)

\* The position in keys, from k on, of the first key for which max raises; 0
\* when there is none.
RECURSIVE FirstRaisingKey(_, _, _)
FirstRaisingKey(job_list, keys, k) ==
    IF k > Len(keys) THEN 0
    ELSE IF LatestQuery_raises(job_list, keys[k]) THEN k
    ELSE FirstRaisingKey(job_list, keys, k + 1)

\* The loop of generate_sql_files over keys up to the key at position raising
\* (0: to the end), for which max raises: the decisions of that key are logged,
\* its SQL file and the keys after it are not reached.
SqlLoopUntilRaise(keys, raising, job_list, out, sql_faults, log_faults) ==
    IF raising = 0 THEN SqlLoop(keys, job_list, out, sql_faults, log_faults)
    ELSE LogAll(SqlLoop(SubSeq(keys, 1, raising - 1), job_list, out, sql_faults, log_faults),
                deduplicate_queries(SqlJobsOf(job_list, keys[raising])).calls,
                log_faults)

\* generate_sql_files on the jobs of a context.
generate_sql_files_until_raise(job_list, files, log_files, sql_faults, log_faults) ==
    SqlLoopUntilRaise(SqlKeys(job_list, <<>>),
                      FirstRaisingKey(job_list, SqlKeys(job_list, <<>>), 1),
                      job_list, Outcome(files, log_files, {}, {}), sql_faults, log_faults)

\* calculate_duration raises TypeError in _update_metrics: end_time is set and
\* only one of start_time and end_time has a time zone.
update_metrics_raises(ctx) == ctx.end_time # None /\ ctx.end_time[1] # ctx.start_time

\* _update_metrics up to the call of calculate_duration.
_update_metrics(ctx) ==
    IF ctx.metadata # None
      THEN [ctx EXCEPT !.metrics.tables_processed = Len(ctx.metadata[1].tables),
                       !.metrics.jobs_processed = Len(ctx.metadata[1].jobs)]
      ELSE ctx

\* execute: the status becomes IN_PROGRESS.
ExecuteBegin ==
    /\ pc = "execute"
    /\ context' = Some([context[1] EXCEPT !.status = "IN_PROGRESS"])
    /\ pc' = "configs"
    /\ UNCHANGED <<cli_config, project_index, results, state, metrics_errors, location_index,
                   success, attempts, status, exit_code, output_dirs, fn_call, fn_ret>>
    /\ UNCHANGED location_vars

\* execute after a generation step returned: when it returned False the status
\* becomes FAILED and execute returns False.
ExecuteStep(step, out, then) ==
    /\ attempts' = Append(attempts, [step |-> step, returned |-> out.returned,
                                     raised |-> out.raised])
    /\ IF out.returned
         THEN /\ context' = Some(out.context)
              /\ pc' = then
              /\ UNCHANGED fn_ret
         ELSE /\ context' = Some([out.context EXCEPT !.status = "FAILED"])
              /\ pc' = "returned"
              /\ fn_ret' = Some(Returned(FALSE))
    /\ UNCHANGED <<cli_config, project_index, results, state, metrics_errors, location_index,
                   success, status, exit_code, output_dirs, fn_call, tables, jobs, errors,
                   result>>

\* What _generate_dataform_configs leaves in the output directory.
ConfigsLeave(left) ==
    /\ actions_config' = left.actions_config
    /\ actions_yaml' = left.actions_yaml
    /\ sql_files' = left.sql_files

\* execute calls _generate_dataform_configs: without metadata it returns False;
\* otherwise generate_actions_yaml creates the missing SQL files and
\* write_actions_yaml writes the manifest, and either may raise.
ExecuteGenerateConfigs ==
    /\ pc = "configs"
    /\ IF context[1].metadata = None
         THEN /\ ExecuteStep("_generate_dataform_configs",
                             GenerateStep(context[1], "_generate_dataform_configs", FALSE),
                             "sql")
              /\ UNCHANGED <<actions_config, actions_yaml, sql_files>>
         ELSE \E metadata \in {context[1].metadata[1]} :
              \E run \in ManifestRuns(Directory(sql_files, logs, actions_yaml),
                                      metadata.tables) :
              \E dep_lists \in DepLists(metadata.tables, metadata.jobs),
                 decl_order \in Orderings(AllDependencies(metadata.tables, metadata.jobs)) :
                 /\ ExecuteStep("_generate_dataform_configs",
                                GenerateStep(context[1], "_generate_dataform_configs",
                                             run.raised # None),
                                "sql")
                 /\ ConfigsLeave(write_manifest(Directory(sql_files, logs, actions_yaml),
                                                metadata, run, dep_lists, decl_order))
    /\ UNCHANGED <<logs, write_errors, truncated>>

\* execute calls _generate_sql_files (the metadata is there, the step before
\* having returned True): the failed writes are caught inside
\* generate_sql_files, an exception of max leaves it.
ExecuteGenerateSqlFiles ==
    /\ pc = "sql"
    /\ \E job_list \in {context[1].metadata[1].jobs} :
       \E sql_faults \in SqlFaultChoices(job_list),
          log_faults \in LogFaultChoices(job_list) :
          /\ ExecuteStep("_generate_sql_files",
                         GenerateStep(context[1], "_generate_sql_files",
                                      FirstRaisingKey(job_list, SqlKeys(job_list, <<>>),
                                                      1) # 0),
                         "finish")
          /\ Leaves(generate_sql_files_until_raise(job_list, sql_files, logs,
                                                   sql_faults, log_faults))
    /\ UNCHANGED <<actions_config, actions_yaml>>

\* execute after both steps: end_time is set, the metrics are updated and the
\* status becomes COMPLETED; an exception of _update_metrics, raised after the
\* counts of tables and jobs were set, is caught by the except branch of
\* execute.
ExecuteFinish ==
    /\ pc = "finish"
    /\ LET ended == [context[1] EXCEPT !.end_time = Some("aware")]
       IN  IF update_metrics_raises(ended)
             THEN /\ context' = Some(CountError([_update_metrics(ended) EXCEPT
                                                    !.status = "FAILED"]))
                  /\ fn_ret' = Some(Returned(FALSE))
             ELSE /\ context' = Some([_update_metrics(ended) EXCEPT !.status = "COMPLETED"])
                  /\ fn_ret' = Some(Returned(TRUE))
    /\ pc' = "returned"
    /\ UNCHANGED <<cli_config, project_index, results, state, metrics_errors, location_index,
                   success, attempts, status, exit_code, output_dirs, fn_call>>
    /\ UNCHANGED location_vars

NextExecute ==
    \/ ExecuteBegin
    \/ ExecuteGenerateConfigs
    \/ ExecuteGenerateSqlFiles
    \/ ExecuteFinish

SpecExecute == InitExecute /\ [][NextExecute]_vars

-----------------------------------------------------------------------------
(* Properties of the action graph (checked under Spec)                     *)

\* The rendered actions of the manifest, once generate_actions_yaml returned.
Actions == actions_config[1].actions

ActionTriple(a) == <<a.value.project, a.value.dataset, a.value.name>>

RenderedDeps(a) ==
    IF "dependencyTargets" \in DOMAIN a.value THEN a.value.dependencyTargets ELSE <<>>

DepTriple(d) == <<d.project, d.dataset, d.name>>

KnownTriples == {TableKey(tables[i]) : i \in 1..Len(tables)}

\* The rendered actions with the given triple.
ActionsOf(triple) == {j \in 1..Len(Actions) : ActionTriple(Actions[j]) = triple}

\* The triples referenced by the jobs of the listed tables, the table's own excepted.
ReferencedTriples ==
    {<<r.projectId, r.datasetId, r.tableId>> :
        r \in UNION {{jobs[i].referenced_tables[k] : k \in 1..Len(jobs[i].referenced_tables)} :
                        i \in {n \in 1..Len(jobs) :
                                 /\ jobs[n].destination_table # None
                                 /\ DestKey(jobs[n]) \in KnownTriples}}}

\* C1. Closure completeness: every dependency target of a table or view action
\* of the manifest is the triple of exactly one action of the manifest.
ClosureCompleteness ==
    actions_config # None =>
        \A i \in 1..Len(Actions) :
            Actions[i].type # "declaration" =>
                \A k \in 1..Len(RenderedDeps(Actions[i])) :
                    Cardinality(ActionsOf(DepTriple(RenderedDeps(Actions[i])[k]))) = 1

\* C1 witness: a table action depends on a listed table and on an unlisted one.
ClosureWitness ==
    /\ actions_config # None
    /\ \E i \in 1..Len(Actions) :
          /\ Actions[i].type = "table"
          /\ \E k \in 1..Len(RenderedDeps(Actions[i])) :
                DepTriple(RenderedDeps(Actions[i])[k]) \in KnownTriples
          /\ \E k \in 1..Len(RenderedDeps(Actions[i])) :
                DepTriple(RenderedDeps(Actions[i])[k]) \notin KnownTriples

\* Both actions are declarations, or neither is.
SameGroup(a, b) == (a.type = "declaration") <=> (b.type = "declaration")

\* C2 as claimed. Every declaration comes after every table and view action,
\* and each of the two groups is in ascending (project, dataset, name) order.
DeclarationsLastSorted ==
    actions_config # None =>
        \A i, j \in 1..Len(Actions) :
            i < j =>
                /\ ~(Actions[i].type = "declaration" /\ Actions[j].type # "declaration")
                /\ SameGroup(Actions[i], Actions[j]) =>
                      ListLt(ActionTriple(Actions[i]), ActionTriple(Actions[j]))

\* The order generate_actions_yaml produces: every declaration comes before
\* every table and view action, and each of the two groups is in ascending
\* (project, dataset, name) order.
DeclarationsFirstSorted ==
    actions_config # None =>
        \A i, j \in 1..Len(Actions) :
            i < j =>
                /\ ~(Actions[i].type # "declaration" /\ Actions[j].type = "declaration")
                /\ SameGroup(Actions[i], Actions[j]) =>
                      ListLt(ActionTriple(Actions[i]), ActionTriple(Actions[j]))

\* C4. No self-dependency: whatever jobs are passed for a table, its own triple
\* is not among the collected dependencies, nor among the dependency targets
\* of its rendered action.
NoSelfDependency ==
    /\ \A i \in 1..Len(tables) :
          \A d \in _collect_dependencies(tables[i], jobs) : DepTriple(d) # TableKey(tables[i])
    /\ actions_config # None =>
          \A i \in 1..Len(Actions) :
              \A k \in 1..Len(RenderedDeps(Actions[i])) :
                  DepTriple(RenderedDeps(Actions[i])[k]) # ActionTriple(Actions[i])

\* C4 witness: a job writing to a listed table references that table, and the
\* manifest has been built.
SelfReferenceWitness ==
    /\ actions_config # None
    /\ \E n \in 1..Len(jobs) :
          /\ jobs[n].destination_table # None
          /\ DestKey(jobs[n]) \in KnownTriples
          /\ \E k \in 1..Len(jobs[n].referenced_tables) :
                jobs[n].referenced_tables[k] = jobs[n].destination_table[1]

\* C5. Action uniqueness: no two actions of the manifest have the same triple,
\* no declaration has the triple of a listed table, and every referenced triple
\* outside the listing has exactly one declaration.
ActionUniqueness ==
    actions_config # None =>
        /\ \A i, j \in 1..Len(Actions) :
              i # j => ActionTriple(Actions[i]) # ActionTriple(Actions[j])
        /\ \A i \in 1..Len(Actions) :
              Actions[i].type = "declaration" => ActionTriple(Actions[i]) \notin KnownTriples
        /\ \A t \in ReferencedTriples \ KnownTriples :
              Cardinality({j \in ActionsOf(t) : Actions[j].type = "declaration"}) = 1

\* C5 witness: two actions of the manifest reference the same unlisted triple.
SharedDeclarationWitness ==
    /\ actions_config # None
    /\ \E i, j \in 1..Len(Actions) :
          /\ i # j
          /\ \E k \in 1..Len(RenderedDeps(Actions[i])), l \in 1..Len(RenderedDeps(Actions[j])) :
                /\ RenderedDeps(Actions[i])[k] = RenderedDeps(Actions[j])[l]
                /\ DepTriple(RenderedDeps(Actions[i])[k]) \notin KnownTriples

\* C6. Declaration minimality: a triple referenced by the jobs of listed tables
\* and absent from the listing is rendered as exactly one declaration entry,
\* which holds name, dataset and project and has no filename, columns or
\* dependencyTargets key.
DeclarationMinimality ==
    actions_config # None =>
        \A t \in ReferencedTriples \ KnownTriples :
            /\ Cardinality(ActionsOf(t)) = 1
            /\ \A j \in ActionsOf(t) :
                  /\ Actions[j].type = "declaration"
                  /\ {"name", "dataset", "project"} \subseteq DOMAIN Actions[j].value
                  /\ DOMAIN Actions[j].value \cap {"filename", "columns", "dependencyTargets"} = {}

\* C6 witness: the manifest holds a declaration next to a table with columns.
DeclarationWitness ==
    /\ actions_config # None
    /\ ReferencedTriples \ KnownTriples # {}
    /\ \E i \in 1..Len(Actions) : "columns" \in DOMAIN Actions[i].value

\* The paths of a column-descriptor tree: one per descriptor at every depth,
\* the name segments of its ancestors followed by its own.
RECURSIVE FlattenedPaths(_, _)
FlattenedPaths(columns, prefix) ==
    UNION {{prefix \o Split(columns[i].name, ".")} \cup
           FlattenedPaths(columns[i].fields, prefix \o Split(columns[i].name, ".")) :
           i \in 1..Len(columns)}

RenderedColumns(a) == IF "columns" \in DOMAIN a.value THEN a.value.columns ELSE <<>>

\* C7 as claimed. Column flattening: the columns of a table's action are the
\* descriptors of the table's column tree at every nesting depth.
ColumnsFlattened ==
    actions_config # None =>
        \A i \in 1..Len(tables) :
            \A j \in ActionsOf(TableKey(tables[i])) :
                {RenderedColumns(Actions[j])[k].path : k \in 1..Len(RenderedColumns(Actions[j]))}
                    = FlattenedPaths(tables[i].columns, <<>>)

\* C9. Build determinism: generate_actions_yaml called again on the same
\* tables and jobs returns the same manifest, whatever order the dependency
\* sets are iterated in.
BuildDeterminism ==
    [][(pc = "generated" /\ pc' = "generated") => actions_config' = actions_config]_vars

\* C9 witness: a manifest whose dependency sets can be iterated in several
\* orders: an action with two dependency targets and two declarations.
IterationOrderWitness ==
    /\ pc = "generated"
    /\ Cardinality({i \in 1..Len(Actions) : Actions[i].type = "declaration"}) >= 2
    /\ \E i \in 1..Len(Actions) : Len(RenderedDeps(Actions[i])) >= 2

\* C10 as claimed. Upstream-fatal refusal: with no table and no job collected,
\* no manifest is generated or written and the migration does not return True.
EmptyMetadataRefused ==
    (pc # "collect" /\ tables = <<>> /\ jobs = <<>>) =>
        /\ actions_config = None
        /\ actions_yaml = None
        /\ result # Some(TRUE)

-----------------------------------------------------------------------------
(* Properties of the deduplicator (checked under SpecSql)                  *)

\* Job i of the list is accepted as canonical: it has query text and scores
\* below the threshold against every canonical job before it.
RECURSIVE Accepted(_, _)
Accepted(js, i) ==
    /\ Truthy(js[i].query)
    /\ \A j \in 1..(i - 1) :
          Accepted(js, j) =>
              ~FracGeq(SimilarityTable[js[i].query[1], js[j].query[1]],
                       [num |-> 9, den |-> 10])

JobIds(s) == [i \in 1..Len(s) |-> s[i].job_id]

\* The (dataset, table) keys under which generate_sql_files groups the jobs.
DestinationKeys == {SqlKey(jobs[i]) : i \in {n \in 1..Len(jobs) : jobs[n].destination_table # None}}

\* The destination triples of the jobs.
DestinationTriples ==
    {DestKey(jobs[i]) : i \in {n \in 1..Len(jobs) : jobs[n].destination_table # None}}

\* C3 as claimed. The SQL file of a destination table holds the query of a job
\* with the greatest created_time among all jobs with query text for that table,
\* accepted as canonical or suppressed as a duplicate.  Stated for the runs in
\* which no two destination triples share dataset and table name, so that every
\* destination has an SQL file of its own.
SqlFileIsLatestOfAll ==
    (/\ result = Some(TRUE)
     /\ \A t \in DestinationTriples, u \in DestinationTriples :
           (t[2] = u[2] /\ t[3] = u[3]) => t = u) =>
        \A t \in DestinationTriples :
            LET js == JobsByTable(jobs, t)
                with_query == {i \in 1..Len(js) : Truthy(js[i].query)}
                path == SqlPath(t[2], t[3])
            IN  (with_query # {} /\ path \notin write_errors) =>
                    /\ path \in DOMAIN sql_files
                    /\ \E i \in with_query :
                          /\ sql_files[path] = js[i].query[1]
                          /\ \A j \in with_query : js[j].created_time <= js[i].created_time

\* C3 witness: the jobs of the run are J1 followed by a near-identical, more
\* recent J2 for the same destination; J2 is suppressed as a duplicate and the
\* file written holds J1's query text, not J2's.
SuppressedNewerWitness ==
    /\ result = Some(TRUE)
    /\ write_errors = {}
    /\ Len(jobs) = 2
    /\ jobs[1].destination_table = jobs[2].destination_table
    /\ Truthy(jobs[1].query) /\ Truthy(jobs[2].query)
    /\ jobs[1].query # jobs[2].query
    /\ jobs[1].created_time < jobs[2].created_time
    /\ ~Accepted(jobs, 2)
    /\ sql_files[SqlPath(SqlKey(jobs[1])[1], SqlKey(jobs[1])[2])] = jobs[1].query[1]

\* C8. Deduplication clustering: for the jobs of one destination, processed in
\* input order, the canonical entries are exactly the jobs with query text that
\* score below the threshold against every earlier canonical entry, the
\* decisions are exactly the other jobs with query text, and the decisions
\* written to the audit log are those.
DedupClustering ==
    result = Some(TRUE) =>
        \A key \in DestinationKeys :
            LET js == SqlJobsOf(jobs, key)
                out == deduplicate_queries(js)
                log_path == LogPath(key[1], key[2])
            IN  /\ JobIds(out.unique_queries) =
                      JobIds(SelectSeq(js, LAMBDA job :
                          \E i \in 1..Len(js) : js[i] = job /\ Accepted(js, i)))
                /\ [i \in 1..Len(out.calls) |-> out.calls[i].job.job_id] =
                      JobIds(SelectSeq(js, LAMBDA job :
                          \E i \in 1..Len(js) :
                              js[i] = job /\ Truthy(job.query) /\ ~Accepted(js, i)))
                /\ (log_path \notin write_errors /\ out.calls # <<>>) =>
                      /\ log_path \in DOMAIN logs
                      /\ JobIds(logs[log_path]) =
                            [i \in 1..Len(out.calls) |-> out.calls[i].job.job_id]

\* C8 witness: three jobs for one destination, two accepted as canonical and
\* one suppressed as a duplicate, after generate_sql_files has run.
ClusteringWitness ==
    /\ result = Some(TRUE)
    /\ write_errors = {}
    /\ \E key \in DestinationKeys :
          LET out == deduplicate_queries(SqlJobsOf(jobs, key))
          IN  Len(out.unique_queries) = 2 /\ Len(out.calls) = 1

-----------------------------------------------------------------------------
(* Properties of the functions called on their own (checked under SpecCalls) *)

\* The call of the function named fn has been made.
Called(fn) == fn_call # None /\ fn_ret # None /\ fn_call[1].fn = fn

\* C11 as claimed. Declaration construction guard: to_dict on a declaration
\* that carries a dependency target, a column or a filename raises an error
\* instead of returning a rendered action.
DeclarationGuard ==
    (/\ Called("ActionDefinition.to_dict")
     /\ fn_call[1].self.type = "declaration"
     /\ \/ fn_call[1].self.dependency_targets # <<>>
        \/ fn_call[1].self.columns # <<>>
        \/ Truthy(fn_call[1].self.filename))
        => fn_ret[1].raised

\* C12. Missing file path is fatal: to_dict on a table or view action whose
\* filename is None or empty raises; rendering a list of actions that holds
\* such an action raises instead of returning a manifest, with or without that
\* action; and a location migration whose actions hold one returns False with
\* one error recorded, no manifest returned by generate_actions_yaml and
\* actions.yaml not written.
MissingFilenameFatal ==
    /\ (/\ Called("ActionDefinition.to_dict")
        /\ fn_call[1].self.type # "declaration"
        /\ fn_call[1].self.filename \in {None, Some(<<>>)})
           => fn_ret[1].raised
    /\ (/\ Called("actions_to_dict")
        /\ \E i \in 1..Len(fn_call[1].actions) :
              /\ fn_call[1].actions[i].type # "declaration"
              /\ fn_call[1].actions[i].filename \in {None, Some(<<>>)})
           => fn_ret[1].raised
    /\ (/\ Called("migrate_location")
        /\ \E i \in 1..Len(fn_call[1].actions) :
              /\ fn_call[1].actions[i].type # "declaration"
              /\ fn_call[1].actions[i].filename \in {None, Some(<<>>)})
           => /\ fn_ret[1] = Returned(FALSE)
              /\ result = Some(FALSE)
              /\ errors = 1
              /\ actions_config = None
              /\ actions_yaml = None

\* C12 witness: a location was migrated whose actions are a well-formed table
\* action followed by a table action with an empty filename; the migration
\* returned False and actions.yaml was not written.
MissingFilenameWitness ==
    /\ Called("migrate_location")
    /\ Len(fn_call[1].actions) = 2
    /\ fn_call[1].actions[1].type = "table" /\ Truthy(fn_call[1].actions[1].filename)
    /\ fn_call[1].actions[2].type = "table" /\ fn_call[1].actions[2].filename = Some(<<>>)
    /\ fn_ret[1] = Returned(FALSE)
    /\ actions_yaml = None

-----------------------------------------------------------------------------
(* Properties of the failures of generate_sql_files (checked under SpecSql) *)

\* C13. Per-destination recovery: whatever writes fail in generate_sql_files,
\* the call returns, and every SQL file and audit log whose own write did not
\* fail holds what it holds in a run without failures.
PerDestinationRecovery ==
    /\ (pc = "done" /\ actions_config # None /\ actions_yaml = actions_config)
          => result = Some(TRUE)
    /\ result = Some(TRUE) =>
          LET clean == generate_sql_files(jobs, <<>>, <<>>, NoFaults, NoFaults)
          IN  /\ \A path \in DOMAIN clean.sql_files \ write_errors :
                    path \in DOMAIN sql_files /\ sql_files[path] = clean.sql_files[path]
              /\ \A path \in DOMAIN clean.logs \ write_errors :
                    path \in DOMAIN logs /\ logs[path] = clean.logs[path]

\* C13 witness: the write of one destination's SQL file failed and the SQL file
\* of another destination was written.
RecoveryWitness ==
    /\ result = Some(TRUE)
    /\ \E failed \in write_errors \cap SqlWritePaths(jobs) :
          \E path \in DOMAIN sql_files : path # failed /\ sql_files[path] # <<>>

\* C14 as claimed. Recoverable failures are surfaced: a run in which the write
\* of an SQL file or of an audit-log line failed differs, in what the caller
\* gets (the errors of the metrics, the value returned), from a run without.
FailuresSurfaced ==
    (pc = "done" /\ write_errors # {}) => (errors > 0 \/ result = Some(FALSE))

-----------------------------------------------------------------------------
(* Properties of the SQL files of a whole run (checked under Spec)         *)

\* The positions of the jobs that wrote a query to the table of an action.
QueryJobsOf(action) ==
    {k \in 1..Len(jobs) :
        /\ jobs[k].destination_table # None
        /\ DestKey(jobs[k]) = <<action.value.project, action.value.dataset, action.value.name>>
        /\ Truthy(jobs[k].query)}

\* C15 as claimed. SQL file content: after a run without failed writes, the
\* file at the filename of every table or view action exists; it holds the
\* query of a job of this run that wrote to that table, and it is empty when no
\* job of this run wrote a query to that table, whatever the output directory
\* held before the run.
SqlFileContent ==
    (result = Some(TRUE) /\ write_errors = {}) =>
        \A i \in 1..Len(Actions) :
            Actions[i].type # "declaration" =>
                /\ Actions[i].value.filename \in DOMAIN sql_files
                /\ IF QueryJobsOf(Actions[i]) = {}
                     THEN sql_files[Actions[i].value.filename] = <<>>
                     ELSE \E k \in QueryJobsOf(Actions[i]) :
                             sql_files[Actions[i].value.filename] = jobs[k].query[1]

\* C16 as claimed. No SQL file for declarations: after a run, no file exists at
\* {dataset}/{name}.sql for a triple the manifest holds as a declaration.
NoSqlFileForDeclarations ==
    result = Some(TRUE) =>
        \A i \in 1..Len(Actions) :
            Actions[i].type = "declaration" =>
                SqlPath(Actions[i].value.dataset, Actions[i].value.name) \notin DOMAIN sql_files

-----------------------------------------------------------------------------
(* Properties of calculate_similarity (checked under SpecCalls)            *)

\* The normalised form of the query is shorter than min_length.
ShortQuery(query) == Len(normalise_query(query)) < min_length

\* C17 as claimed. Similarity symmetry and bounds: the score of two texts lies
\* in [0, 1], it is the score of the same texts in the other order, and the
\* score of a text against itself is 1 when its normalised form has at least
\* min_length characters.
SimilaritySymmetricBounded ==
    Called("calculate_similarity") =>
        LET score == fn_ret[1].value
            swapped == calculate_similarity(fn_call[1].query2, fn_call[1].query1)
        IN  /\ score.den > 0
            /\ 0 <= score.num /\ score.num <= score.den
            /\ score.num * swapped.den = swapped.num * score.den
            /\ (fn_call[1].query1 = fn_call[1].query2 /\ ~ShortQuery(fn_call[1].query1))
                  => score.num = score.den

\* C18. Minimum-length guard: calculate_similarity returns 0 when the normalised
\* form of either text is shorter than min_length, identical and empty texts
\* included; deduplicate_queries therefore never lists a job as similar to a
\* job when one of the two queries is short, and keeps both as unique entries.
MinimumLengthGuard ==
    /\ Called("calculate_similarity") =>
          ((ShortQuery(fn_call[1].query1) \/ ShortQuery(fn_call[1].query2))
              => fn_ret[1].value.num = 0)
    /\ Called("deduplicate_queries") =>
          LET given == fn_call[1].jobs
              out == fn_ret[1].value
          IN  \A i, j \in 1..Len(given) :
                  (/\ i < j
                   /\ Truthy(given[i].query) /\ Truthy(given[j].query)
                   /\ ShortQuery(given[i].query[1]) \/ ShortQuery(given[j].query[1]))
                  => /\ \A c \in 1..Len(out.calls) :
                           out.calls[c].job.job_id = given[j].job_id =>
                               \A e \in 1..Len(out.calls[c].similar_queries) :
                                   out.calls[c].similar_queries[e].job_id # given[i].job_id
                     /\ (ShortQuery(given[i].query[1]) /\ ShortQuery(given[j].query[1]))
                           => \A k \in {i, j} :
                                  \E u \in 1..Len(out.unique_queries) :
                                      out.unique_queries[u].job_id = given[k].job_id

\* C18 witness: two jobs with the same short query were deduplicated and both
\* are unique entries.
ShortDuplicatesWitness ==
    /\ Called("deduplicate_queries")
    /\ Len(fn_call[1].jobs) = 2
    /\ fn_call[1].jobs[1].query = Some(QueryShort)
    /\ fn_call[1].jobs[2].query = Some(QueryShort)
    /\ Len(fn_ret[1].value.unique_queries) = 2

-----------------------------------------------------------------------------
(* Properties of _generate_config_from_table (checked under SpecCalls)     *)

\* C19 as claimed. Partition config: for a table with a partition spec,
\* partitionBy is the field of the spec; with an expiration of ms milliseconds,
\* partitionExpirationDays is the floor of ms / 86,400,000; without an
\* expiration the key partitionExpirationDays is absent.
PartitionConfig ==
    Called("_generate_config_from_table") =>
        LET part == fn_call[1].table.partitioning
            config == fn_ret[1].value
        IN  (part # None /\ DOMAIN part[1] # {}) =>
                /\ "partitionBy" \in DOMAIN config
                /\ config.partitionBy = Get(part[1], "field")
                /\ IF "expirationMs" \in DOMAIN part[1]
                     THEN /\ "partitionExpirationDays" \in DOMAIN config
                          /\ config.partitionExpirationDays =
                                DivModDays(part[1].expirationMs, Len(part[1].expirationMs))[1]
                     ELSE "partitionExpirationDays" \notin DOMAIN config

\* The same for expirations of less than 2^27 days, where it holds.
PartitionConfigBelowLimit ==
    Called("_generate_config_from_table") =>
        LET part == fn_call[1].table.partitioning
            config == fn_ret[1].value
        IN  (part # None /\ DOMAIN part[1] # {}) =>
                /\ "partitionBy" \in DOMAIN config
                /\ config.partitionBy = Get(part[1], "field")
                /\ IF "expirationMs" \in DOMAIN part[1]
                     THEN /\ "partitionExpirationDays" \in DOMAIN config
                          /\ DivModDays(part[1].expirationMs, Len(part[1].expirationMs))[1] < 2 ^ 27
                                => config.partitionExpirationDays =
                                      DivModDays(part[1].expirationMs, Len(part[1].expirationMs))[1]
                     ELSE "partitionExpirationDays" \notin DOMAIN config

-----------------------------------------------------------------------------
(* Properties of the dependency sets (checked under Spec)                  *)

\* The triples of the tables referenced by the jobs whose destination is the
\* table.
ReferencedBy(table) ==
    {<<r.projectId, r.datasetId, r.tableId>> :
        r \in UNION {{jobs[n].referenced_tables[k] : k \in 1..Len(jobs[n].referenced_tables)} :
                        n \in {m \in 1..Len(jobs) :
                                 /\ jobs[m].destination_table # None
                                 /\ DestKey(jobs[m]) = TableKey(table)}}}

\* The job with its referenced tables in every order.
JobReorderings(job) ==
    {[job EXCEPT !.referenced_tables = [k \in 1..Len(job.referenced_tables) |->
                                           job.referenced_tables[order[k]]]] :
        order \in Orderings(1..Len(job.referenced_tables))}

\* The job list in every order, each job with its referenced tables in every
\* order.
RECURSIVE RefReorderings(_)
RefReorderings(job_list) ==
    IF job_list = <<>> THEN {<<>>}
    ELSE {<<first>> \o rest :
             first \in JobReorderings(Head(job_list)),
             rest \in RefReorderings(Tail(job_list))}

JobListReorderings(job_list) ==
    {[k \in 1..Len(job_list) |-> reordered[order[k]]] :
        reordered \in RefReorderings(job_list), order \in Orderings(1..Len(job_list))}

\* C20. Dependency resolution: the dependency targets rendered for a listed
\* table are the distinct triples referenced by the jobs whose destination is
\* the table, its own triple excepted, each of them once; and the dependency
\* set is the same for every order of the jobs and of the referenced tables of
\* each job.
DependencyResolution ==
    actions_config # None =>
        \A i \in 1..Len(tables) :
            /\ \A j \in ActionsOf(TableKey(tables[i])) :
                  /\ {DepTriple(RenderedDeps(Actions[j])[k]) :
                         k \in 1..Len(RenderedDeps(Actions[j]))}
                       = ReferencedBy(tables[i]) \ {TableKey(tables[i])}
                  /\ \A k, l \in 1..Len(RenderedDeps(Actions[j])) :
                        k # l => RenderedDeps(Actions[j])[k] # RenderedDeps(Actions[j])[l]
            /\ \A reordered \in JobListReorderings(JobsByTable(jobs, TableKey(tables[i]))) :
                  _collect_dependencies(tables[i], reordered)
                    = TableDependencies(tables, jobs)[i]

\* C20 witness: the manifest was built from two jobs of a listed table, one
\* referencing the table itself and another table, the other referencing a
\* table twice.
DependencyResolutionWitness ==
    /\ actions_config # None
    /\ \E i \in 1..Len(tables), m, n \in 1..Len(jobs) :
          /\ jobs[m].destination_table # None /\ DestKey(jobs[m]) = TableKey(tables[i])
          /\ jobs[n].destination_table # None /\ DestKey(jobs[n]) = TableKey(tables[i])
          /\ jobs[m].referenced_tables = <<RefA, RefB>>
          /\ jobs[n].referenced_tables = <<RefY, RefX, RefY>>
          /\ TableKey(tables[i]) = <<RefA.projectId, RefA.datasetId, RefA.tableId>>
          /\ Cardinality(ActionsOf(TableKey(tables[i]))) = 1

-----------------------------------------------------------------------------
(* Properties of the actions of the listed tables (checked under Spec)     *)

\* C21. One action per table: the manifest holds exactly one table or view
\* action for every listed table, a view when the table's kind is VIEW and a
\* table for every other kind, with the filename {dataset}/{table}.sql; there
\* are as many table and view actions as listed tables.
OneActionPerTable ==
    actions_config # None =>
        /\ Cardinality({j \in 1..Len(Actions) : Actions[j].type # "declaration"}) = Len(tables)
        /\ \A i \in 1..Len(tables) :
              /\ Cardinality({j \in ActionsOf(TableKey(tables[i])) :
                                 Actions[j].type # "declaration"}) = 1
              /\ \A j \in ActionsOf(TableKey(tables[i])) :
                    /\ Actions[j].type =
                          IF tables[i].table_type = "VIEW" THEN "view" ELSE "table"
                    /\ "filename" \in DOMAIN Actions[j].value
                    /\ Actions[j].value.filename =
                          tables[i].dataset_id \o <<"/">> \o tables[i].table_id
                          \o <<".", "s", "q", "l">>

\* C21 witness: the manifest was built from a view and a materialized view.
ViewAndTableWitness ==
    /\ actions_config # None
    /\ \E i, k \in 1..Len(tables) :
          /\ tables[i].table_type = "VIEW"
          /\ tables[k].table_type = "MATERIALIZED_VIEW"
          /\ \E j \in ActionsOf(TableKey(tables[i])) : Actions[j].type = "view"
          /\ \E j \in ActionsOf(TableKey(tables[k])) : Actions[j].type = "table"

RenderedTags(col) == IF "tags" \in DOMAIN col THEN col.tags ELSE <<>>

RenderedPolicyTags(col) ==
    IF "bigqueryPolicyTags" \in DOMAIN col THEN col.bigqueryPolicyTags ELSE <<>>

\* The strings of the list are in ascending order of their code points.
AscendingStrings(list) == \A k \in 1..(Len(list) - 1) : ~StrLt(list[k + 1], list[k])

\* C22. Nested ordering: in the action that to_dict renders the columns are in
\* lexicographic order of their paths, the dependency targets in ascending
\* (project, dataset, name) order, and the tags and policy tags of every column
\* in ascending order, whatever the order in the ActionDefinition.
NestedOrdering ==
    (Called("ActionDefinition.to_dict") /\ ~fn_ret[1].raised) =>
        LET rendered == fn_ret[1].value
        IN  /\ \A k \in 1..(Len(RenderedColumns(rendered)) - 1) :
                  ~ListLt(RenderedColumns(rendered)[k + 1].path,
                          RenderedColumns(rendered)[k].path)
            /\ \A k \in 1..(Len(RenderedDeps(rendered)) - 1) :
                  ~ListLt(DepTriple(RenderedDeps(rendered)[k + 1]),
                          DepTriple(RenderedDeps(rendered)[k]))
            /\ \A k \in 1..Len(RenderedColumns(rendered)) :
                  /\ AscendingStrings(RenderedTags(RenderedColumns(rendered)[k]))
                  /\ AscendingStrings(RenderedPolicyTags(RenderedColumns(rendered)[k]))

\* C22 witness: to_dict rendered an action whose columns, dependency targets,
\* tags and policy tags are listed in descending order.
NestedOrderingWitness ==
    /\ Called("ActionDefinition.to_dict")
    /\ ~fn_ret[1].raised
    /\ LET self == fn_call[1].self
       IN  /\ \E k \in 1..(Len(self.columns) - 1) :
                 ListLt(self.columns[k + 1].path, self.columns[k].path)
           /\ \E k \in 1..(Len(self.dependency_targets) - 1) :
                 ListLt(DepTriple(self.dependency_targets[k + 1]),
                        DepTriple(self.dependency_targets[k]))
           /\ \E k \in 1..Len(self.columns) :
                 /\ ~AscendingStrings(self.columns[k].tags)
                 /\ ~AscendingStrings(self.columns[k].bigquery_policy_tags)
    /\ Len(RenderedColumns(fn_ret[1].value)) > 1
    /\ Len(RenderedDeps(fn_ret[1].value)) > 1

-----------------------------------------------------------------------------
(* Properties of the audit logs over runs (checked under SpecRuns)         *)

\* C23. The audit log is append-only: in every step each log file that exists
\* still exists afterwards and starts with the records it held, unchanged and
\* in their positions; new records come after them.
AuditLogAppendOnly ==
    [][\A path \in DOMAIN logs :
          /\ path \in DOMAIN logs'
          /\ Len(logs'[path]) >= Len(logs[path])
          /\ SubSeq(logs'[path], 1, Len(logs[path])) = logs[path]]_vars

\* C23 witness: after the run a log holds the record of the earlier run
\* followed by a record of this run.
AuditLogGrownWitness ==
    /\ pc = "done"
    /\ \E path \in DOMAIN logs :
          /\ Len(logs[path]) >= 2
          /\ logs[path][1].job_id = JobId(9)
          /\ "job_id" \in DOMAIN logs[path][Len(logs[path])]
          /\ logs[path][Len(logs[path])].job_id # JobId(9)

-----------------------------------------------------------------------------
(* Properties of audit logging in a run (checked under SpecSql)            *)

\* C24. Audit logging does not affect control flow: after a run the SQL files
\* are those of the run in which every log write succeeds and those of the runs
\* in which every log write fails, at the open or after it (the SQL writes
\* failing as they did); each of these runs leaves what it leaves without the
\* jobs that have no destination table, and no line of a log is of such a job
\* or refers to one.
AuditLoggingFrame ==
    result = Some(TRUE) =>
        LET sql_faults == [path \in write_errors \cap SqlWritePaths(jobs) |->
                              IF path \in truncated THEN WriteRaises(Len(sql_files[path]))
                              ELSE OpenRaises]
            ids == {jobs[n].job_id : n \in 1..Len(jobs)}
            with_destination == SelectSeq(jobs, LAMBDA job : job.destination_table # None)
        IN  /\ \A log_faults \in {NoFaults} \cup {[id \in ids |-> fault] : fault \in LogFaults} :
                  /\ sql_files = generate_sql_files(jobs, <<>>, <<>>, sql_faults,
                                                    log_faults).sql_files
                  /\ generate_sql_files(with_destination, <<>>, <<>>, sql_faults, log_faults)
                        = generate_sql_files(jobs, <<>>, <<>>, sql_faults, log_faults)
            /\ \A n \in 1..Len(jobs) :
                  jobs[n].destination_table = None =>
                      \A path \in DOMAIN logs :
                          \A k \in 1..Len(logs[path]) :
                              LET line == IF "partial" \in DOMAIN logs[path][k]
                                            THEN logs[path][k].partial ELSE logs[path][k]
                              IN  /\ line.job_id # jobs[n].job_id
                                  /\ \A e \in 1..Len(line.similar_queries) :
                                        line.similar_queries[e].job_id # jobs[n].job_id

\* C24 witness: in a run with a job without destination table, the write of a
\* decision record failed and the SQL file of that destination was written.
AuditLoggingFrameWitness ==
    /\ result = Some(TRUE)
    /\ \E n \in 1..Len(jobs) : jobs[n].destination_table = None /\ Truthy(jobs[n].query)
    /\ \E n \in 1..Len(jobs) :
          /\ jobs[n].destination_table # None
          /\ LogPath(SqlKey(jobs[n])[1], SqlKey(jobs[n])[2]) \in write_errors
          /\ SqlPath(SqlKey(jobs[n])[1], SqlKey(jobs[n])[2]) \in DOMAIN sql_files

\* The jobs whose destination is the table ref.
JobsInto(job_list, ref) ==
    SelectSeq(job_list, LAMBDA job : job.destination_table = Some(ref))

\* C26 as claimed. Independence of destination tables: after a run in which no
\* write failed, the SQL file and the audit log of every destination triple
\* (project, dataset, table) are those of the run over the jobs with that
\* destination triple alone, and two distinct triples have distinct SQL files
\* and distinct audit logs.
DestinationIndependence ==
    (result = Some(TRUE) /\ write_errors = {}) =>
        \A n \in 1..Len(jobs) :
            jobs[n].destination_table # None =>
                LET ref == jobs[n].destination_table[1]
                    alone == generate_sql_files(JobsInto(jobs, ref), <<>>, <<>>, NoFaults, NoFaults)
                    sql_path == SqlPath(ref.datasetId, ref.tableId)
                    log_path == LogPath(ref.datasetId, ref.tableId)
                IN  /\ Get(sql_files, sql_path) = Get(alone.sql_files, sql_path)
                    /\ Get(logs, log_path) = Get(alone.logs, log_path)
                    /\ \A m \in 1..Len(jobs) :
                          (jobs[m].destination_table # None
                           /\ jobs[m].destination_table[1] # ref) =>
                              LET other == jobs[m].destination_table[1]
                              IN  /\ SqlPath(other.datasetId, other.tableId) # sql_path
                                  /\ LogPath(other.datasetId, other.tableId) # log_path


\* The position of the job with identifier id in the list js, 0 if absent.
PositionOf(js, id) ==
    IF \E i \in 1..Len(js) : js[i].job_id = id
      THEN CHOOSE i \in 1..Len(js) : js[i].job_id = id
      ELSE 0

\* The identifiers in a list of jobs, entries or records, as a set.
IdSet(s) == {s[i].job_id : i \in 1..Len(s)}

\* C27. Decision record content: in the audit log of a destination whose log
\* writes did not fail, the records are one for each job with query text that
\* was not accepted as canonical and none for a canonical job; every entry of
\* a record's similar_queries names a canonical job that comes earlier in
\* input order than the record's job, not that job itself and not a job with a
\* record, and carries the score of the record's query against that job's
\* query, which is at or above the threshold.
DecisionRecordContent ==
    result = Some(TRUE) =>
        \A key \in DestinationKeys :
            LET js == SqlJobsOf(jobs, key)
                canonical == IdSet(deduplicate_queries(js).unique_queries)
                with_text == IdSet(SelectSeq(js, LAMBDA job : Truthy(job.query)))
                log_path == LogPath(key[1], key[2])
                records == IF log_path \in DOMAIN logs THEN logs[log_path] ELSE <<>>
            IN  log_path \notin write_errors =>
                    /\ \A i, j \in 1..Len(records) :
                          records[i].job_id = records[j].job_id => i = j
                    /\ IdSet(records) = with_text \ canonical
                    /\ \A i \in 1..Len(records) :
                          /\ records[i].similar_queries # <<>>
                          /\ \A e \in 1..Len(records[i].similar_queries) :
                                LET entry == records[i].similar_queries[e]
                                    named == PositionOf(js, entry.job_id)
                                    judged == PositionOf(js, records[i].job_id)
                                IN  /\ entry.job_id \in canonical
                                    /\ entry.job_id \notin IdSet(records)
                                    /\ entry.job_id # records[i].job_id
                                    /\ 0 < named /\ named < judged
                                    /\ entry.similarity =
                                          SimilarityTable[js[judged].query[1],
                                                          js[named].query[1]]
                                    /\ FracGeq(entry.similarity, similarity_threshold)

\* C27 witness: a log with two records after a run over three jobs for one
\* destination, the first canonical and the other two its duplicates.
DecisionRecordWitness ==
    /\ result = Some(TRUE)
    /\ write_errors = {}
    /\ \E key \in DestinationKeys :
          /\ Len(SqlJobsOf(jobs, key)) = 3
          /\ LogPath(key[1], key[2]) \in DOMAIN logs
          /\ Len(logs[LogPath(key[1], key[2])]) = 2
          /\ \A i \in 1..2 :
                logs[LogPath(key[1], key[2])][i].similar_queries[1].job_id =
                    SqlJobsOf(jobs, key)[1].job_id

\* s is a subsequence of t.
RECURSIVE IsSubsequence(_, _)
IsSubsequence(s, t) ==
    IF s = <<>> THEN TRUE
    ELSE IF t = <<>> THEN FALSE
    ELSE IF Head(s) = Head(t) THEN IsSubsequence(Tail(s), Tail(t))
    ELSE IsSubsequence(s, Tail(t))

\* x < y for fractions with positive denominators
FracLess(x, y) == x.num * y.den < y.num * x.den

\* C28. Canonical-set invariant of deduplicate_queries: after every number of
\* iterations of the loop over the jobs of a destination, the canonical list
\* is a subsequence of the jobs with query text visited so far, every later
\* canonical entry scores strictly below the threshold against every earlier
\* one, the first job with query text is canonical, every visited job with
\* query text is canonical or was judged a duplicate and never both, and one
\* more iteration keeps the canonical entries there were.
CanonicalSetInvariant ==
    result = Some(TRUE) =>
        \A key \in DestinationKeys :
            \A k \in 0..Len(SqlJobsOf(jobs, key)) :
                LET visited == SubSeq(SqlJobsOf(jobs, key), 1, k)
                    with_text == SelectSeq(visited, LAMBDA job : Truthy(job.query))
                    out == deduplicate_queries(visited)
                    unique_queries == out.unique_queries
                    duplicates == {out.calls[i].job.job_id : i \in 1..Len(out.calls)}
                IN  /\ IsSubsequence(
                          [i \in 1..Len(unique_queries) |->
                              [job_id |-> unique_queries[i].job_id,
                               query |-> Some(unique_queries[i].query),
                               created_time |-> unique_queries[i].created_time]],
                          [i \in 1..Len(with_text) |->
                              [job_id |-> with_text[i].job_id,
                               query |-> with_text[i].query,
                               created_time |-> with_text[i].created_time]])
                    /\ \A j \in 1..Len(unique_queries) :
                          \A i \in 1..(j - 1) :
                              FracLess(SimilarityTable[unique_queries[j].query,
                                                       unique_queries[i].query],
                                       similarity_threshold)
                    /\ with_text # <<>> =>
                          /\ unique_queries # <<>>
                          /\ unique_queries[1].job_id = with_text[1].job_id
                    /\ IdSet(unique_queries) \cup duplicates = IdSet(with_text)
                    /\ IdSet(unique_queries) \cap duplicates = {}
                    /\ k > 0 =>
                          LET before ==
                                  deduplicate_queries(SubSeq(visited, 1, k - 1)).unique_queries
                          IN  SubSeq(unique_queries, 1, Len(before)) = before

\* C28 witness: a run over three jobs with query text for one destination, the
\* second a duplicate of the first and the third canonical.
CanonicalSetWitness ==
    /\ result = Some(TRUE)
    /\ \E key \in DestinationKeys :
          LET js == SqlJobsOf(jobs, key)
              out == deduplicate_queries(js)
          IN  /\ Len(js) = 3
              /\ \A i \in 1..3 : Truthy(js[i].query)
              /\ JobIds(out.unique_queries) = <<js[1].job_id, js[3].job_id>>
              /\ Len(out.calls) = 1


-----------------------------------------------------------------------------
(* Properties of the command line and the orchestrator (checked under      *)
(* SpecCli and SpecCliFair)                                                *)

\* C25 as claimed. CLI exit code: run_cli returns 0 when the migration
\* succeeded (handler.run() returned 0) and 1 when it failed, on every path,
\* and the process exits with that status.
CliExitCode ==
    (pc = "exited" /\ fn_ret # None) =>
        LET expected == IF status = Some(0) THEN 0 ELSE 1
        IN  /\ fn_ret[1].value = Some(expected)
            /\ exit_code = Some(expected)

\* migrate has returned for the current manager.
MigrateReturned == pc \in {"migrate_projects", "status", "returned", "exited"} /\ state # None

\* The locations of the attempts that returned False, in order.
FailedLocations ==
    Map(SelectSeq(attempts, LAMBDA a : ~a.returned), LAMBDA a : a.location)

\* C29. Project migration lifecycle: migrate moves the state from NOT_STARTED
\* to IN_PROGRESS and from there, after every configured location was
\* attempted in order, to COMPLETED or FAILED, which it always reaches; the
\* final state is COMPLETED exactly when every attempt returned True; the error
\* entries are those of the failed locations, one each; the value returned is
\* True exactly when the final state is COMPLETED.
ProjectMigrationLifecycle ==
    /\ [](MigrateReturned =>
            /\ state \in {Some("COMPLETED"), Some("FAILED")}
            /\ Map(attempts, LAMBDA a : a.location) = cli_config[1].locations
            /\ (state = Some("COMPLETED")) <=> (\A i \in 1..Len(attempts) : attempts[i].returned)
            /\ Map(metrics_errors, LAMBDA e : e.context.location) = FailedLocations
            /\ results[cli_config[1].projects[project_index]] = (state = Some("COMPLETED")))
    /\ [][state' # state =>
            \/ state' = Some("NOT_STARTED")
            \/ state = Some("NOT_STARTED") /\ state' = Some("IN_PROGRESS")
            \/ /\ state = Some("IN_PROGRESS")
               /\ state' \in {Some("COMPLETED"), Some("FAILED")}
               /\ Len(attempts) = Len(cli_config[1].locations)]_vars
    /\ [][attempts' # attempts /\ attempts' # <<>> =>
            /\ Len(attempts') = Len(attempts) + 1
            /\ state = Some("IN_PROGRESS") /\ state' = state
            /\ Len(metrics_errors') =
                  Len(metrics_errors) + (IF attempts'[Len(attempts')].returned THEN 0 ELSE 1)]_vars
    /\ (state = Some("IN_PROGRESS")) ~> (state \in {Some("COMPLETED"), Some("FAILED")})

\* C29 witness: migrate returned after its first location failed and its second
\* succeeded; the state is FAILED and there is one error entry.
ProjectMigrationWitness ==
    /\ MigrateReturned
    /\ state = Some("FAILED")
    /\ Len(attempts) = 2
    /\ ~attempts[1].returned
    /\ attempts[2].returned
    /\ Len(metrics_errors) = 1

-----------------------------------------------------------------------------
(* Properties of DataformMigration.execute (checked under SpecExecute)     *)

\* C30 as claimed. DataformMigration.execute ordering and status: the status is
\* NOT_STARTED before the call, IN_PROGRESS during it and COMPLETED or FAILED
\* once it returned; SQL generation is attempted only after the manifest step
\* returned True; on return the status is COMPLETED if and only if both steps
\* succeeded, the value returned is True exactly then, and errors_encountered
\* counts the steps that raised.
ExecuteOrderingAndStatus ==
    context # None =>
        /\ pc = "execute" => context[1].status = "NOT_STARTED"
        /\ pc \in {"configs", "sql", "finish"} => context[1].status = "IN_PROGRESS"
        /\ pc = "returned" => context[1].status \in {"COMPLETED", "FAILED"}
        /\ \A i \in 1..Len(attempts) :
              attempts[i].step = "_generate_sql_files" =>
                  /\ i = 2
                  /\ attempts[1].step = "_generate_dataform_configs"
                  /\ attempts[1].returned
        /\ pc = "returned" =>
              LET both_succeeded ==
                      /\ Len(attempts) = 2
                      /\ \A i \in 1..2 : attempts[i].returned
              IN  /\ (context[1].status = "COMPLETED") <=> both_succeeded
                  /\ fn_ret = Some(Returned(both_succeeded))
                  /\ context[1].metrics.errors_encountered =
                        Cardinality({i \in 1..Len(attempts) : attempts[i].raised})

====
